---- MODULE Spec2Model ----
(***************************************************************************)
(* Model of the command correlation bridge (ViteDevToolsBridge) and of the *)
(* session registry of VueMcpHttpServer of vue-mcp-next.                   *)
(*                                                                         *)
(* The repository carries two implementations of the bridge:               *)
(*   "base"    src/plugins/base/devtools-bridge.ts (src/unnamed/part_004)  *)
(*   "package" packages/plugin/src/lib/devtools-bridge.ts                  *)
(* The variable `variant` selects one of them for a whole behaviour.       *)
(***************************************************************************)
EXTENDS Integers, Sequences, FiniteSets, TLC

\* ------------------------------------------------------------------ bounds
\* number of sendCommand calls that get past the precondition checks
MaxCalls == 2
\* number of transports constructed by POST /mcp
MaxTransports == 2
\* number of requests that are inside one transport's handleRequest at a time
MaxInHandle == 2
\* number of close() invocations on one transport
MaxCloses == 2
\* most VueMcpServer.start() calls, and most stop() calls, suspended at once
MaxLifecycleCalls == 2

\* ------------------------------------------------------------- value sets
Variants == {"base", "package"}
Calls == 1..MaxCalls
\* correlation ids; one more than the calls, so that an id that was never
\* minted always exists
ReqIds == 1..(MaxCalls + 1)
NoId == 0
\* payloads carried by replies: result of a response, error text of an error
Results == {"v1", "v2"}
NoValue == "none"
\* the error of an error event that carries no error text (missing or empty)
NoText == ""
\* what the `error` field of an error event can be
ErrorTexts == Results \cup {NoText}
\* method names passed to sendCommand; "" is the falsy method name
Methods == {"", "get-component-tree"}
Transports == 1..MaxTransports
NoSession == 0
\* a session id no transport of this server ever generated
UnknownSid == MaxTransports + 1
\* values of the mcp-session-id header; NoSession is the missing header
SessionIds == 1..UnknownSid
\* HTTP methods served by handleSessionRequest
SessionMethods == {"GET", "DELETE"}
\* names of tools registered by setupRuntimeTools
Tools == {"get-component-tree", "get-component-state", "get-router-info"}
\* malformed payloads of an inbound event: no payload, null, an object
\* without requestId, an object whose requestId is a number
MalformedData == {"undefined", "null", "noRequestId", "numberRequestId"}
\* the inbound events that carry replies
ReplyEvents == {"response", "error"}

VARIABLES
  variant,          \* which implementation of the bridge runs
  wsAvailable,      \* viteServer.ws is present
  clientReady,      \* ViteDevToolsBridge.clientReady
  pendingRequests,  \* Map requestId -> entry; the entry is named by its call
  messageId,        \* ViteDevToolsBridge.messageId (package variant)
  minted,           \* correlation ids minted so far
  nCalls,           \* calls that reached the Promise executor
  reqId,            \* call -> its requestId
  timerArmed,       \* call -> the setTimeout of its pending entry is armed
  raceArmed,        \* call -> the setTimeout of createTimeoutPromise is armed
  cmdState,         \* call -> state of commandPromise
  settles,          \* call -> number of resolve/reject invocations on it
  callerState,      \* call -> state of the promise sendCommand returned
  outcome,          \* call -> what settled the caller's promise
  value,            \* call -> result or error text the caller received
  emitted,          \* sequence of 'vue-mcp:command' events handed to ws.send
  cleaned,          \* cleanup() has run on this bridge
  lastOp,           \* the operation that produced this state
  transports,       \* VueMcpHttpServer.transports: sessionId -> transport
  tState,           \* transport -> "absent" | "connected" | "closed"
  tSession,         \* transport -> transport.sessionId
  closeCount,       \* transport -> number of close() invocations
  httpServer,       \* "none" | "listening" | "closed"
  inspectorProcess, \* an Inspector child process is held
  nTransports,      \* transports constructed so far
  stopped,          \* stop() has run: "no" | "once" | "again"
  tRequest,         \* transport -> header and body kind of the POST that built it
  awaitingConnect,  \* transport -> that POST is suspended in `await connect`
  inHandle,         \* transport -> requests inside its handleRequest
  toolOutcome,      \* tool -> what its handler did in the last invocation
  toolResponse,     \* tool -> what the registered tool callback did then
  layerBridge,      \* DevToolsRuntimeLayer.bridge is set
  envelope,         \* call -> what the tool callback awaiting it did
  layerCall,        \* the last operation of DevToolsRuntimeLayer and what it did
  health,           \* body of the last GET /health response
  debugSessions,    \* body of the last GET /debug/sessions response
  isStarted,        \* VueMcpServer.isStarted
  starting,         \* VueMcpServer.start() calls suspended at an await
  stopping,         \* VueMcpServer.stop() calls suspended at an await
  config            \* VueMcpConfigManager.config, by the fields validateConfig reads

bridgeVars == <<variant, wsAvailable, clientReady, pendingRequests, messageId,
                minted, nCalls, reqId, timerArmed, raceArmed, cmdState,
                settles, callerState, outcome, value, emitted, cleaned>>
httpVars == <<transports, tState, tSession, closeCount, httpServer,
              inspectorProcess, nTransports, stopped, tRequest,
              awaitingConnect, inHandle>>
toolVars == <<toolOutcome, toolResponse, layerBridge, envelope, layerCall>>
inspectVars == <<health, debugSessions>>
serverVars == <<isStarted, starting, stopping>>
configVars == <<config>>
vars == <<bridgeVars, lastOp, httpVars, toolVars, inspectVars, serverVars,
          configVars>>

\* ---------------------------------------------------------------- helpers
Op(name, res) == [op |-> name, res |-> res]

\* NETWORK_CONSTANTS.REQUEST_TIMEOUT, the delay of both timers of a call
REQUEST_TIMEOUT == 10000

Pending == DOMAIN pendingRequests

\* Map.prototype.set
MapSet(m, k, v) == [x \in (DOMAIN m) \cup {k} |-> IF x = k THEN v ELSE m[x]]
\* Map.prototype.delete
MapDelete(m, k) == [x \in (DOMAIN m) \ {k} |-> m[x]]

\* ------------------------------------------------------------ the bridge
\* resolve(...) / reject(...) invoked on the commandPromise of every call in
\* S.  A promise keeps its first settlement; the promise sendCommand returned
\* follows commandPromise (it is commandPromise in the package variant and
\* Promise.race([commandPromise, ...]) in the base variant).
Settle(S, st, how, v) ==
  /\ settles' = [c \in Calls |-> IF c \in S THEN settles[c] + 1 ELSE settles[c]]
  /\ cmdState' = [c \in Calls |->
        IF c \in S /\ cmdState[c] = "pending" THEN st ELSE cmdState[c]]
  /\ callerState' = [c \in Calls |->
        IF c \in S /\ callerState[c] = "pending" THEN st ELSE callerState[c]]
  /\ outcome' = [c \in Calls |->
        IF c \in S /\ callerState[c] = "pending" THEN how ELSE outcome[c]]
  /\ value' = [c \in Calls |->
        IF c \in S /\ callerState[c] = "pending" THEN v ELSE value[c]]

\* generateRequestId(): `req_${Date.now()}_${random suffix}`.  Ids are opaque
\* strings compared by equality only, so the k-th new string is named k: the
\* call returns a string it returned before or the next new one; with
\* `distinct` the strings returned are taken to be pairwise different.
generateRequestId(distinct) ==
  IF distinct THEN {Cardinality(minted) + 1} ELSE 1..(Cardinality(minted) + 1)

\* the ids a call can be given.  package: `req_${++this.messageId}_${Date.now()}`,
\* named by its counter; base: generateRequestId()
MintIds(distinct) ==
  IF variant = "package" THEN {messageId + 1} ELSE generateRequestId(distinct)

\* sendCommand, one of the precondition checks throws: nothing else happens
SendCommandRejected(method) ==
  /\ \/ variant = "base" /\ method = ""
     \/ ~wsAvailable
     \/ ~clientReady
  /\ lastOp' = Op("sendCommand", IF variant = "base" /\ method = "" THEN "methodRequired"
                  ELSE IF ~wsAvailable THEN "wsNotAvailable"
                  ELSE "clientNotReady")
  /\ UNCHANGED <<bridgeVars, httpVars, toolVars, inspectVars, configVars, serverVars>>

\* the catch block around ws.send without clearTimeout and delete
SendFailed_leavesEntry(c, r) ==
  /\ timerArmed' = [timerArmed EXCEPT ![c] = TRUE]
  /\ pendingRequests' = MapSet(pendingRequests, r, c)
  /\ cmdState' = [cmdState EXCEPT ![c] = "rejected"]
  /\ callerState' = [callerState EXCEPT ![c] = "rejected"]
  /\ settles' = [settles EXCEPT ![c] = 1]
  /\ outcome' = [outcome EXCEPT ![c] = "sendFailed"]
  /\ UNCHANGED <<emitted, value>>

\* the catch block around ws.send: clearTimeout(timeout), delete, reject(error)
SendFailed(c, r) ==
  /\ timerArmed' = [timerArmed EXCEPT ![c] = FALSE]
  /\ pendingRequests' = MapDelete(MapSet(pendingRequests, r, c), r)
  /\ cmdState' = [cmdState EXCEPT ![c] = "rejected"]
  /\ callerState' = [callerState EXCEPT ![c] = "rejected"]
  /\ settles' = [settles EXCEPT ![c] = 1]
  /\ outcome' = [outcome EXCEPT ![c] = "sendFailed"]
  /\ UNCHANGED <<emitted, value>>

\* registration that stores the entry without arming its timer
SendOk_noTimer(c, method, r) ==
  /\ timerArmed' = [timerArmed EXCEPT ![c] = FALSE]
  /\ pendingRequests' = MapSet(pendingRequests, r, c)
  /\ cmdState' = [cmdState EXCEPT ![c] = "pending"]
  /\ callerState' = [callerState EXCEPT ![c] = "pending"]
  /\ emitted' = Append(emitted, [type |-> method, requestId |-> r])
  /\ UNCHANGED <<settles, outcome, value>>

\* ws.send('vue-mcp:command', {type, data, requestId}) returned normally
SendOk(c, method, r) ==
  /\ timerArmed' = [timerArmed EXCEPT ![c] = TRUE]
  /\ pendingRequests' = MapSet(pendingRequests, r, c)
  /\ cmdState' = [cmdState EXCEPT ![c] = "pending"]
  /\ callerState' = [callerState EXCEPT ![c] = "pending"]
  /\ emitted' = Append(emitted, [type |-> method, requestId |-> r])
  /\ UNCHANGED <<settles, outcome, value>>

\* sendCommand without the clientReady check
SendCommand_noReadyCheck(method, sendThrows, distinct) ==
  /\ ~(variant = "base" /\ method = "")
  /\ wsAvailable
  /\ nCalls < MaxCalls
  /\ \E r \in MintIds(distinct) :
       LET c == nCalls + 1 IN
       /\ nCalls' = c
       /\ reqId' = [reqId EXCEPT ![c] = r]
       /\ minted' = minted \cup {r}
       /\ messageId' = IF variant = "package" THEN messageId + 1 ELSE messageId
       /\ IF sendThrows THEN SendFailed(c, r) ELSE SendOk(c, method, r)
       /\ raceArmed' = [raceArmed EXCEPT ![c] = (variant = "base")]
       /\ lastOp' = Op("sendCommand", IF sendThrows THEN "sendFailed" ELSE "sent")
  /\ UNCHANGED <<variant, wsAvailable, clientReady, cleaned, httpVars, toolVars, inspectVars, configVars, serverVars>>

\* sendCommand past the precondition checks: mint the id, arm the timer,
\* store the entry, emit the command; the base variant wraps the promise in
\* createTimeoutPromise, which arms a second timer
SendCommand(method, sendThrows, distinct) ==
  /\ ~(variant = "base" /\ method = "")
  /\ wsAvailable
  /\ clientReady
  /\ nCalls < MaxCalls
  /\ \E r \in MintIds(distinct) :
       LET c == nCalls + 1 IN
       /\ nCalls' = c
       /\ reqId' = [reqId EXCEPT ![c] = r]
       /\ minted' = minted \cup {r}
       /\ messageId' = IF variant = "package" THEN messageId + 1 ELSE messageId
       /\ IF sendThrows THEN SendFailed(c, r) ELSE SendOk(c, method, r)
       /\ raceArmed' = [raceArmed EXCEPT ![c] = (variant = "base")]
       /\ lastOp' = Op("sendCommand", IF sendThrows THEN "sendFailed" ELSE "sent")
  /\ UNCHANGED <<variant, wsAvailable, clientReady, cleaned, httpVars, toolVars, inspectVars, configVars, serverVars>>

\* handleClientResponse without the clearTimeout of the entry's timer
handleClientResponse_keepsTimer(r, v) ==
  /\ wsAvailable
  /\ IF r \in Pending
     THEN /\ pendingRequests' = MapDelete(pendingRequests, r)
          /\ Settle({pendingRequests[r]}, "resolved", "response", v)
          /\ lastOp' = Op("response", "resolved")
          /\ UNCHANGED timerArmed
     ELSE /\ lastOp' = Op("response", "unknown")
          /\ UNCHANGED <<timerArmed, pendingRequests, settles, cmdState,
                         callerState, outcome, value>>
  /\ UNCHANGED <<variant, wsAvailable, clientReady, messageId, minted, nCalls,
                 reqId, raceArmed, emitted, cleaned, httpVars, toolVars, inspectVars, configVars, serverVars>>

\* handleClientResponse that takes a reply as a sign that the client is ready
handleClientResponse_setsReady(r, v) ==
  /\ wsAvailable
  /\ clientReady' = TRUE
  /\ IF r \in Pending
     THEN /\ timerArmed' = [timerArmed EXCEPT ![pendingRequests[r]] = FALSE]
          /\ pendingRequests' = MapDelete(pendingRequests, r)
          /\ Settle({pendingRequests[r]}, "resolved", "response", v)
          /\ lastOp' = Op("response", "resolved")
     ELSE /\ lastOp' = Op("response", "unknown")
          /\ UNCHANGED <<timerArmed, pendingRequests, settles, cmdState,
                         callerState, outcome, value>>
  /\ UNCHANGED <<variant, wsAvailable, messageId, minted, nCalls,
                 reqId, raceArmed, emitted, cleaned, httpVars, toolVars, inspectVars, configVars, serverVars>>

\* handleClientResponse that takes the oldest entry instead of looking the
\* requestId up
handleClientResponse_oldestEntry(r, v) ==
  /\ wsAvailable
  /\ IF Pending # {}
     THEN LET k == CHOOSE x \in Pending : \A y \in Pending : x <= y IN
          /\ timerArmed' = [timerArmed EXCEPT ![pendingRequests[k]] = FALSE]
          /\ pendingRequests' = MapDelete(pendingRequests, k)
          /\ Settle({pendingRequests[k]}, "resolved", "response", v)
          /\ lastOp' = Op("response", "resolved")
     ELSE /\ lastOp' = Op("response", "unknown")
          /\ UNCHANGED <<timerArmed, pendingRequests, settles, cmdState,
                         callerState, outcome, value>>
  /\ UNCHANGED <<variant, wsAvailable, clientReady, messageId, minted, nCalls,
                 reqId, raceArmed, emitted, cleaned, httpVars, toolVars, inspectVars, configVars, serverVars>>

\* the 'vue-mcp:response' listener
handleClientResponse(r, v) ==
  /\ wsAvailable
  /\ IF r \in Pending
     THEN /\ timerArmed' = [timerArmed EXCEPT ![pendingRequests[r]] = FALSE]
          /\ pendingRequests' = MapDelete(pendingRequests, r)
          /\ Settle({pendingRequests[r]}, "resolved", "response", v)
          /\ lastOp' = Op("response", "resolved")
     ELSE /\ lastOp' = Op("response", "unknown")
          /\ UNCHANGED <<timerArmed, pendingRequests, settles, cmdState,
                         callerState, outcome, value>>
  /\ UNCHANGED <<variant, wsAvailable, clientReady, messageId, minted, nCalls,
                 reqId, raceArmed, emitted, cleaned, httpVars, toolVars, inspectVars, configVars, serverVars>>

\* the message of the Error an error event rejects the call with.
\* src/plugins/base: new Error(error || 'Unknown client error');
\* packages/plugin: new Error(error), whose message is '' without a text
ErrorMessage(error) ==
  IF variant = "base" /\ error = NoText THEN "Unknown client error" ELSE error

\* handleClientError that rejects with a fixed message instead of the text
\* of the event
handleClientError_genericMessage(r, v) ==
  /\ wsAvailable
  /\ IF r \in Pending
     THEN /\ timerArmed' = [timerArmed EXCEPT ![pendingRequests[r]] = FALSE]
          /\ pendingRequests' = MapDelete(pendingRequests, r)
          /\ Settle({pendingRequests[r]}, "rejected", "error", "Unknown client error")
          /\ lastOp' = Op("error", "rejected")
     ELSE /\ lastOp' = Op("error", "unknown")
          /\ UNCHANGED <<timerArmed, pendingRequests, settles, cmdState,
                         callerState, outcome, value>>
  /\ UNCHANGED <<variant, wsAvailable, clientReady, messageId, minted, nCalls,
                 reqId, raceArmed, emitted, cleaned, httpVars, toolVars, inspectVars, configVars, serverVars>>

\* handleClientError that rejects every entry when the requestId is unknown
handleClientError_unknownRejectsAll(r, v) ==
  /\ wsAvailable
  /\ IF r \in Pending
     THEN /\ timerArmed' = [timerArmed EXCEPT ![pendingRequests[r]] = FALSE]
          /\ pendingRequests' = MapDelete(pendingRequests, r)
          /\ Settle({pendingRequests[r]}, "rejected", "error", ErrorMessage(v))
          /\ lastOp' = Op("error", "rejected")
     ELSE /\ timerArmed' = [c \in Calls |->
                IF c \in {pendingRequests[k] : k \in Pending} THEN FALSE
                ELSE timerArmed[c]]
          /\ pendingRequests' = <<>>
          /\ Settle({pendingRequests[k] : k \in Pending}, "rejected", "error",
                    ErrorMessage(v))
          /\ lastOp' = Op("error", "unknown")
  /\ UNCHANGED <<variant, wsAvailable, clientReady, messageId, minted, nCalls,
                 reqId, raceArmed, emitted, cleaned, httpVars, toolVars, inspectVars, configVars, serverVars>>

\* the 'vue-mcp:error' listener
handleClientError(r, v) ==
  /\ wsAvailable
  /\ IF r \in Pending
     THEN /\ timerArmed' = [timerArmed EXCEPT ![pendingRequests[r]] = FALSE]
          /\ pendingRequests' = MapDelete(pendingRequests, r)
          /\ Settle({pendingRequests[r]}, "rejected", "error", ErrorMessage(v))
          /\ lastOp' = Op("error", "rejected")
     ELSE /\ lastOp' = Op("error", "unknown")
          /\ UNCHANGED <<timerArmed, pendingRequests, settles, cmdState,
                         callerState, outcome, value>>
  /\ UNCHANGED <<variant, wsAvailable, clientReady, messageId, minted, nCalls,
                 reqId, raceArmed, emitted, cleaned, httpVars, toolVars, inspectVars, configVars, serverVars>>

\* the 'vue-mcp:response' (event = "response") or 'vue-mcp:error' listener
\* called with malformed data.  src/plugins/base tests `!data || typeof
\* data.requestId !== 'string'`, warns and returns.  packages/plugin starts
\* with `const { requestId, ... } = data`, which throws a TypeError when data
\* is undefined or null; otherwise it looks up a requestId that is undefined
\* or no string, which is no key of the map, and warns.
handleInvalidData(event, data) ==
  /\ wsAvailable
  /\ lastOp' = Op(event, IF variant = "base" THEN "invalid"
                         ELSE IF data \in {"undefined", "null"} THEN "threw"
                         ELSE "unknown")
  /\ UNCHANGED <<bridgeVars, httpVars, toolVars, inspectVars, configVars, serverVars>>

\* the timeout callback without pendingRequests.delete(requestId)
RequestTimeout_keepsEntry(c) ==
  /\ timerArmed[c]
  /\ timerArmed' = [timerArmed EXCEPT ![c] = FALSE]
  /\ Settle({c}, "rejected", "timeout", NoValue)
  /\ lastOp' = Op("timeout", "rejected")
  /\ UNCHANGED <<variant, wsAvailable, clientReady, pendingRequests, messageId,
                 minted, nCalls, reqId, raceArmed, emitted, cleaned, httpVars, toolVars, inspectVars, configVars, serverVars>>

\* the timeout callback that sends the command once more before it gives up
RequestTimeout_resends(c) ==
  /\ timerArmed[c]
  /\ timerArmed' = [timerArmed EXCEPT ![c] = FALSE]
  /\ pendingRequests' = MapDelete(pendingRequests, reqId[c])
  /\ Settle({c}, "rejected", "timeout", NoValue)
  /\ emitted' = Append(emitted, [type |-> "get-component-tree",
                                 requestId |-> reqId[c]])
  /\ lastOp' = Op("timeout", "rejected")
  /\ UNCHANGED <<variant, wsAvailable, clientReady, messageId, minted, nCalls,
                 reqId, raceArmed, cleaned, httpVars, toolVars, inspectVars, configVars, serverVars>>

\* the timeout callback that removes the entry without rejecting the call
RequestTimeout_noReject(c) ==
  /\ timerArmed[c]
  /\ timerArmed' = [timerArmed EXCEPT ![c] = FALSE]
  /\ pendingRequests' = MapDelete(pendingRequests, reqId[c])
  /\ lastOp' = Op("timeout", "rejected")
  /\ UNCHANGED <<variant, wsAvailable, clientReady, messageId, minted, nCalls,
                 reqId, raceArmed, emitted, cleaned, settles, cmdState,
                 callerState, outcome, value, httpVars, toolVars, inspectVars, configVars, serverVars>>

\* the callback of the setTimeout armed for call c's entry
RequestTimeout(c) ==
  /\ timerArmed[c]
  /\ timerArmed' = [timerArmed EXCEPT ![c] = FALSE]
  /\ pendingRequests' = MapDelete(pendingRequests, reqId[c])
  /\ Settle({c}, "rejected", "timeout", NoValue)
  /\ lastOp' = Op("timeout", "rejected")
  /\ UNCHANGED <<variant, wsAvailable, clientReady, messageId, minted, nCalls,
                 reqId, raceArmed, emitted, cleaned, httpVars, toolVars, inspectVars, configVars, serverVars>>

\* the callback of the setTimeout of createTimeoutPromise for call c.  Both
\* timers of a call wait REQUEST_TIMEOUT and this one is armed second, so it
\* runs only when the entry's timer has run or was cleared.
createTimeoutPromise(c) ==
  /\ raceArmed[c]
  /\ ~timerArmed[c]
  /\ raceArmed' = [raceArmed EXCEPT ![c] = FALSE]
  /\ callerState' = [callerState EXCEPT ![c] = IF @ = "pending" THEN "rejected" ELSE @]
  /\ outcome' = [outcome EXCEPT ![c] =
        IF callerState[c] = "pending" THEN "raceTimeout" ELSE @]
  /\ lastOp' = Op("raceTimer", "fired")
  /\ UNCHANGED <<variant, wsAvailable, clientReady, pendingRequests, messageId,
                 minted, nCalls, reqId, timerArmed, cmdState, settles, value,
                 emitted, cleaned, httpVars, toolVars, inspectVars, configVars, serverVars>>

\* the calls whose entries are in pendingRequests
EntryCalls == {pendingRequests[r] : r \in Pending}

\* cleanup() that rejects the entries but neither clears the map nor the timers
cleanup_keepsEntries ==
  /\ Settle({pendingRequests[r] : r \in Pending}, "rejected", "shutdown", NoValue)
  /\ clientReady' = FALSE
  /\ cleaned' = TRUE
  /\ lastOp' = Op("cleanup", IF lastOp.op = "cleanup" THEN "repeated" ELSE "drained")
  /\ UNCHANGED <<variant, wsAvailable, messageId, minted, nCalls, reqId,
                 raceArmed, emitted, httpVars, toolVars, inspectVars, configVars, serverVars, pendingRequests, timerArmed>>

\* cleanup() that clears the map without rejecting the entries
cleanup_dropsEntries ==
  /\ timerArmed' = [c \in Calls |->
        IF c \in {pendingRequests[r] : r \in Pending} THEN FALSE ELSE timerArmed[c]]
  /\ pendingRequests' = <<>>
  /\ clientReady' = FALSE
  /\ cleaned' = TRUE
  /\ lastOp' = Op("cleanup", IF lastOp.op = "cleanup" THEN "repeated" ELSE "drained")
  /\ UNCHANGED <<variant, wsAvailable, messageId, minted, nCalls, reqId,
                 raceArmed, emitted, httpVars, toolVars, inspectVars, configVars, serverVars, settles, cmdState, callerState,
                 outcome, value>>

\* cleanup(): clearTimeout and reject for every entry, clear the map, not ready
cleanup ==
  /\ timerArmed' = [c \in Calls |-> IF c \in EntryCalls THEN FALSE ELSE timerArmed[c]]
  /\ Settle(EntryCalls, "rejected", "shutdown", NoValue)
  /\ pendingRequests' = <<>>
  /\ clientReady' = FALSE
  /\ cleaned' = TRUE
  /\ lastOp' = Op("cleanup", IF lastOp.op = "cleanup" THEN "repeated" ELSE "drained")
  /\ UNCHANGED <<variant, wsAvailable, messageId, minted, nCalls, reqId,
                 raceArmed, emitted, httpVars, toolVars, inspectVars, configVars, serverVars>>

\* a setClientReady that, on false, also drops the pending calls and their
\* timers the way a disconnect handler would
setClientReady_dropsPending(ready) ==
  /\ clientReady' = ready
  /\ lastOp' = Op("setClientReady", IF ready THEN "true" ELSE "false")
  /\ pendingRequests' = IF ready THEN pendingRequests ELSE <<>>
  /\ timerArmed' = IF ready THEN timerArmed ELSE [c \in Calls |-> FALSE]
  /\ UNCHANGED <<variant, wsAvailable, messageId, minted,
                 nCalls, reqId, raceArmed, cmdState, settles,
                 callerState, outcome, value, emitted, cleaned, httpVars, toolVars, inspectVars, configVars, serverVars>>

\* setClientReady(ready)
setClientReady(ready) ==
  /\ clientReady' = ready
  /\ lastOp' = Op("setClientReady", IF ready THEN "true" ELSE "false")
  /\ UNCHANGED <<variant, wsAvailable, pendingRequests, messageId, minted,
                 nCalls, reqId, timerArmed, raceArmed, cmdState, settles,
                 callerState, outcome, value, emitted, cleaned, httpVars, toolVars, inspectVars, configVars, serverVars>>

\* the 'vue-mcp:client-ready' listener
handleClientReady ==
  /\ wsAvailable
  /\ clientReady' = TRUE
  /\ lastOp' = Op("clientReadyEvent", "true")
  /\ UNCHANGED <<variant, wsAvailable, pendingRequests, messageId, minted,
                 nCalls, reqId, timerArmed, raceArmed, cmdState, settles,
                 callerState, outcome, value, emitted, cleaned, httpVars, toolVars, inspectVars, configVars, serverVars>>

\* POST /__vue-mcp/client-ready handled by the plugin middleware
handleClientReadyRequest ==
  /\ clientReady' = TRUE
  /\ lastOp' = Op("clientReadyRequest", "true")
  /\ UNCHANGED <<variant, wsAvailable, pendingRequests, messageId, minted,
                 nCalls, reqId, timerArmed, raceArmed, cmdState, settles,
                 callerState, outcome, value, emitted, cleaned, httpVars, toolVars, inspectVars, configVars, serverVars>>


\* ------------------------------------------------- the HTTP server
\* a sessionIdGenerator that returns the same id for every transport
SessionIdOf_shared(t) == 1

\* randomUUID() session ids are opaque and pairwise different: the id the
\* transport t generates is named t
SessionIdOf(t) == t

\* the transports stored in the registry
Registered == {transports[k] : k \in DOMAIN transports}

\* the values a client can send in the mcp-session-id header: none, an id
\* some transport of this server generated, or an id none of them generated
Presentable == {NoSession, UnknownSid} \cup {tSession[t] : t \in Transports}

\* what the POST handler reads from a request: the mcp-session-id header and
\* isInitializeRequest(req.body)
Request(sid, init) == [sid |-> sid, init |-> init]

\* start(): app.listen, then startInspector(), which spawns the Inspector when
\* it is enabled and set to start automatically
start(spawnInspector) ==
  /\ httpServer = "none"
  /\ httpServer' = "listening"
  /\ inspectorProcess' = spawnInspector
  /\ lastOp' = Op("start", "listening")
  /\ UNCHANGED <<bridgeVars, toolVars, inspectVars, configVars, serverVars, transports, tState, tSession, closeCount,
                 nTransports, stopped, tRequest, awaitingConnect, inHandle>>

\* construction that stores the transport in the registry at once, before
\* the transport reported a session
ConstructTransport_storesAtOnce(sid, init) ==
  /\ nTransports < MaxTransports
  /\ LET t == nTransports + 1 IN
       /\ nTransports' = t
       /\ tState' = [tState EXCEPT ![t] = "connected"]
       /\ tRequest' = [tRequest EXCEPT ![t] = Request(sid, init)]
       /\ awaitingConnect' = [awaitingConnect EXCEPT ![t] = TRUE]
       /\ transports' = MapSet(transports, SessionIdOf(t), t)
  /\ UNCHANGED <<bridgeVars, toolVars, inspectVars, configVars, serverVars, tSession, closeCount,
                 httpServer, inspectorProcess, stopped, inHandle>>

\* new StreamableHTTPServerTransport({sessionIdGenerator, onsessioninitialized}),
\* transport.onclose = ..., and the call of mcpServer.connect(transport), at
\* whose await the handler is suspended
ConstructTransport(sid, init) ==
  /\ nTransports < MaxTransports
  /\ LET t == nTransports + 1 IN
       /\ nTransports' = t
       /\ tState' = [tState EXCEPT ![t] = "connected"]
       /\ tRequest' = [tRequest EXCEPT ![t] = Request(sid, init)]
       /\ awaitingConnect' = [awaitingConnect EXCEPT ![t] = TRUE]
  /\ UNCHANGED <<bridgeVars, toolVars, inspectVars, configVars, serverVars, transports, tSession, closeCount,
                 httpServer, inspectorProcess, stopped, inHandle>>

\* POST /mcp without a session id and with an initialize body: construct the
\* transport, set its onclose, connect it to the MCP server
PostInitialize ==
  /\ httpServer = "listening"
  /\ ConstructTransport(NoSession, TRUE)
  /\ lastOp' = Op("postInitialize", "connected")

\* the last branch of POST /mcp handing a request without session id to the
\* transport of some registered session when there is one
PostDevelopmentMode_reusesTransport(sid, init) ==
  /\ httpServer = "listening"
  /\ sid \in Presentable
  /\ ~(sid # NoSession /\ sid \in DOMAIN transports)
  /\ ~(sid = NoSession /\ init)
  /\ IF sid = NoSession /\ Registered # {}
     THEN LET t == CHOOSE u \in Registered : TRUE IN
          /\ inHandle[t] < MaxInHandle
          /\ inHandle' = [inHandle EXCEPT ![t] = @ + 1]
          /\ UNCHANGED <<bridgeVars, toolVars, inspectVars, configVars, serverVars, transports, tState, tSession,
                         closeCount, httpServer, inspectorProcess, nTransports,
                         stopped, tRequest, awaitingConnect>>
     ELSE ConstructTransport(sid, init)
  /\ lastOp' = Op("postDevelopmentMode", "connected")

\* POST /mcp, the last branch ("development mode"): every request that
\* neither carries the id of a registered session nor is an initialize
\* request without a session id gets a new transport as well
PostDevelopmentMode(sid, init) ==
  /\ httpServer = "listening"
  /\ sid \in Presentable
  /\ ~(sid # NoSession /\ sid \in DOMAIN transports)
  /\ ~(sid = NoSession /\ init)
  /\ ConstructTransport(sid, init)
  /\ lastOp' = Op("postDevelopmentMode", "connected")

\* POST /mcp with the id of a registered session that builds and connects a
\* transport of its own instead of using the stored one
PostExisting_newTransport(sid, init) ==
  /\ httpServer = "listening"
  /\ sid # NoSession
  /\ sid \in DOMAIN transports
  /\ ConstructTransport(sid, init)
  /\ lastOp' = Op("postExisting", "handled")

\* POST /mcp routed under one lock for the whole server: a request for a
\* registered session waits until no transport has a request inside
PostExisting_globalLock(sid, init) ==
  /\ httpServer = "listening"
  /\ sid # NoSession
  /\ sid \in DOMAIN transports
  /\ \A u \in Transports : inHandle[u] = 0
  /\ LET t == transports[sid] IN
       IF init
       THEN /\ lastOp' = Op("postExisting", "alreadyInitialized")
            /\ UNCHANGED inHandle
       ELSE /\ inHandle[t] < MaxInHandle
            /\ inHandle' = [inHandle EXCEPT ![t] = @ + 1]
            /\ lastOp' = Op("postExisting", "handled")
  /\ UNCHANGED <<bridgeVars, toolVars, inspectVars, configVars, serverVars, transports, tState, tSession, closeCount,
                 httpServer, inspectorProcess, nTransports, stopped, tRequest,
                 awaitingConnect>>

\* POST /mcp with the id of a registered session: the stored transport
\* handles the request.  The transport answers an initialize request with
\* 400 (it is initialized already) and serves every other request.
PostExisting(sid, init) ==
  /\ httpServer = "listening"
  /\ sid # NoSession
  /\ sid \in DOMAIN transports
  /\ LET t == transports[sid] IN
       IF init
       THEN /\ lastOp' = Op("postExisting", "alreadyInitialized")
            /\ UNCHANGED inHandle
       ELSE /\ inHandle[t] < MaxInHandle
            /\ inHandle' = [inHandle EXCEPT ![t] = @ + 1]
            /\ lastOp' = Op("postExisting", "handled")
  /\ UNCHANGED <<bridgeVars, toolVars, inspectVars, configVars, serverVars, transports, tState, tSession, closeCount,
                 httpServer, inspectorProcess, nTransports, stopped, tRequest,
                 awaitingConnect>>

\* the catch block of a route handler: log, and answer 500 unless the
\* response headers were sent already; the exception goes no further
CatchAnswer(headersSent) == IF headersSent THEN "none" ELSE "500"

\* a POST handler whose exception is not caught: the rejection of the
\* handler's promise is left unhandled and the request gets no answer
ConnectRejected_escapes(t) ==
  /\ awaitingConnect[t]
  /\ awaitingConnect' = [awaitingConnect EXCEPT ![t] = FALSE]
  /\ lastOp' = Op("connect", "unhandled")
  /\ UNCHANGED <<bridgeVars, toolVars, inspectVars, configVars, serverVars, transports, tState, tSession, closeCount,
                 httpServer, inspectorProcess, nTransports, stopped, tRequest,
                 inHandle>>

\* mcpServer.connect(transport) rejected: no header was sent yet, the catch
\* block answers 500 and the transport never handles the request
ConnectRejected(t) ==
  /\ awaitingConnect[t]
  /\ awaitingConnect' = [awaitingConnect EXCEPT ![t] = FALSE]
  /\ lastOp' = Op("connect", CatchAnswer(FALSE))
  /\ UNCHANGED <<bridgeVars, toolVars, inspectVars, configVars, serverVars, transports, tState, tSession, closeCount,
                 httpServer, inspectorProcess, nTransports, stopped, tRequest,
                 inHandle>>

\* connect resolved and transport.handleRequest got a request that is not an
\* initialize request: the new transport has no session and answers 400
HandleNotInitialized(t) ==
  /\ awaitingConnect[t]
  /\ ~tRequest[t].init
  /\ awaitingConnect' = [awaitingConnect EXCEPT ![t] = FALSE]
  /\ lastOp' = Op("handleRequest", "notInitialized")
  /\ UNCHANGED <<bridgeVars, toolVars, inspectVars, configVars, serverVars, transports, tState, tSession, closeCount,
                 httpServer, inspectorProcess, nTransports, stopped, tRequest,
                 inHandle>>

\* an onsessioninitialized callback that files the transport under the
\* session id the request presented in its header, when it presented one
onsessioninitialized_storesHeaderId(t) ==
  /\ tState[t] = "connected"
  /\ tSession[t] = NoSession
  /\ awaitingConnect[t]
  /\ tRequest[t].init
  /\ awaitingConnect' = [awaitingConnect EXCEPT ![t] = FALSE]
  /\ tSession' = [tSession EXCEPT ![t] = SessionIdOf(t)]
  /\ transports' = MapSet(transports,
                          IF tRequest[t].sid # NoSession THEN tRequest[t].sid
                          ELSE SessionIdOf(t), t)
  /\ inHandle' = [inHandle EXCEPT ![t] = @ + 1]
  /\ lastOp' = Op("sessionInitialized", "stored")
  /\ UNCHANGED <<bridgeVars, toolVars, inspectVars, configVars, serverVars, tState, closeCount, httpServer,
                 inspectorProcess, nTransports, stopped, tRequest>>

\* connect resolved and transport.handleRequest got the initialize request:
\* the transport generates its session id and calls
\* onsessioninitialized(sessionId): this.transports[sessionId] = transport
onsessioninitialized(t) ==
  /\ tState[t] = "connected"
  /\ tSession[t] = NoSession
  /\ awaitingConnect[t]
  /\ tRequest[t].init
  /\ awaitingConnect' = [awaitingConnect EXCEPT ![t] = FALSE]
  /\ tSession' = [tSession EXCEPT ![t] = SessionIdOf(t)]
  /\ transports' = MapSet(transports, SessionIdOf(t), t)
  /\ inHandle' = [inHandle EXCEPT ![t] = @ + 1]
  /\ lastOp' = Op("sessionInitialized", "stored")
  /\ UNCHANGED <<bridgeVars, toolVars, inspectVars, configVars, serverVars, tState, closeCount, httpServer,
                 inspectorProcess, nTransports, stopped, tRequest>>

\* transport.handleRequest returned for one of the requests inside it
HandleRequestDone(t) ==
  /\ inHandle[t] > 0
  /\ inHandle' = [inHandle EXCEPT ![t] = @ - 1]
  /\ lastOp' = Op("handleRequest", "done")
  /\ UNCHANGED <<bridgeVars, toolVars, inspectVars, configVars, serverVars, transports, tState, tSession, closeCount,
                 httpServer, inspectorProcess, nTransports, stopped, tRequest,
                 awaitingConnect>>

\* transport.handleRequest threw or rejected, before or after the response
\* headers were sent: for a request inside a transport with a session, or
\* for the first request of a transport just connected, which then never
\* gets its session.  The catch block of the route handler takes over.
HandleRequestThrows(t, headersSent) ==
  /\ \/ /\ inHandle[t] > 0
        /\ inHandle' = [inHandle EXCEPT ![t] = @ - 1]
        /\ UNCHANGED awaitingConnect
     \/ /\ awaitingConnect[t]
        /\ awaitingConnect' = [awaitingConnect EXCEPT ![t] = FALSE]
        /\ UNCHANGED inHandle
  /\ lastOp' = Op("handleRequest", CatchAnswer(headersSent))
  /\ UNCHANGED <<bridgeVars, toolVars, inspectVars, configVars, serverVars, transports, tState, tSession, closeCount,
                 httpServer, inspectorProcess, nTransports, stopped, tRequest>>

\* transport.close() of a transport without onclose: the entry stays
close_keepsEntry(t) ==
  /\ closeCount' = [closeCount EXCEPT ![t] = @ + 1]
  /\ tState' = [tState EXCEPT ![t] = "closed"]
  /\ transports' = transports

\* transport.close() that returns: the transport runs its onclose, which
\* deletes this.transports[transport.sessionId]
close(t) ==
  /\ closeCount' = [closeCount EXCEPT ![t] = @ + 1]
  /\ tState' = [tState EXCEPT ![t] = "closed"]
  /\ transports' = IF tSession[t] # NoSession
                   THEN MapDelete(transports, tSession[t]) ELSE transports

\* handleSessionRequest that hands a request without the id of a registered
\* session to some registered transport instead of answering 400
handleSessionRequest_skipsCheck(method, sid) ==
  /\ httpServer = "listening"
  /\ sid \in Presentable
  /\ IF Registered = {}
     THEN /\ lastOp' = Op(method, "400")
          /\ UNCHANGED <<transports, tState, closeCount, inHandle>>
     ELSE LET t == IF sid \in DOMAIN transports THEN transports[sid]
                   ELSE CHOOSE u \in Registered : TRUE IN
          IF method = "GET"
          THEN /\ inHandle[t] < MaxInHandle
               /\ inHandle' = [inHandle EXCEPT ![t] = @ + 1]
               /\ lastOp' = Op(method, "handled")
               /\ UNCHANGED <<transports, tState, closeCount>>
          ELSE /\ closeCount[t] < MaxCloses
               /\ close(t)
               /\ lastOp' = Op(method, "handled")
               /\ UNCHANGED inHandle
  /\ UNCHANGED <<bridgeVars, toolVars, inspectVars, configVars, serverVars, tSession, httpServer, inspectorProcess,
                 nTransports, stopped, tRequest, awaitingConnect>>

\* GET /mcp and DELETE /mcp: 400 without the id of a registered session,
\* otherwise the stored transport handles the request; it opens the event
\* stream for GET and closes itself for DELETE
handleSessionRequest(method, sid) ==
  /\ httpServer = "listening"
  /\ sid \in Presentable
  /\ IF sid = NoSession \/ sid \notin DOMAIN transports
     THEN /\ lastOp' = Op(method, "400")
          /\ UNCHANGED <<transports, tState, closeCount, inHandle>>
     ELSE LET t == transports[sid] IN
          IF method = "GET"
          THEN /\ inHandle[t] < MaxInHandle
               /\ inHandle' = [inHandle EXCEPT ![t] = @ + 1]
               /\ lastOp' = Op(method, "handled")
               /\ UNCHANGED <<transports, tState, closeCount>>
          ELSE /\ closeCount[t] < MaxCloses
               /\ close(t)
               /\ lastOp' = Op(method, "handled")
               /\ UNCHANGED inHandle
  /\ UNCHANGED <<bridgeVars, toolVars, inspectVars, configVars, serverVars, tSession, httpServer, inspectorProcess,
                 nTransports, stopped, tRequest, awaitingConnect>>

\* a closeSession that resets the whole registry once the transport is closed
closeSession_resetsRegistry(sid, closeThrows) ==
  /\ sid \in Presentable
  /\ closeThrows => sid \in DOMAIN transports
  /\ IF sid \in DOMAIN transports
     THEN LET t == transports[sid] IN
          /\ closeCount[t] < MaxCloses
          /\ IF closeThrows
             THEN /\ closeCount' = [closeCount EXCEPT ![t] = @ + 1]
                  /\ lastOp' = Op("closeSession", "false")
                  /\ UNCHANGED <<transports, tState>>
             ELSE /\ closeCount' = [closeCount EXCEPT ![t] = @ + 1]
                  /\ tState' = [tState EXCEPT ![t] = "closed"]
                  /\ transports' = <<>>
                  /\ lastOp' = Op("closeSession", "true")
     ELSE /\ lastOp' = Op("closeSession", "false")
          /\ UNCHANGED <<transports, tState, closeCount>>
  /\ UNCHANGED <<bridgeVars, toolVars, inspectVars, configVars, serverVars, tSession, httpServer, inspectorProcess,
                 nTransports, stopped, tRequest, awaitingConnect, inHandle>>

\* a closeSession that deletes the entry in a finally block, also when
\* close() threw
closeSession_deletesOnThrow(sid, closeThrows) ==
  /\ sid \in Presentable
  /\ closeThrows => sid \in DOMAIN transports
  /\ IF sid \in DOMAIN transports
     THEN LET t == transports[sid] IN
          /\ closeCount[t] < MaxCloses
          /\ closeCount' = [closeCount EXCEPT ![t] = @ + 1]
          /\ transports' = MapDelete(MapDelete(transports, tSession[t]), sid)
          /\ IF closeThrows
             THEN /\ lastOp' = Op("closeSession", "false")
                  /\ UNCHANGED tState
             ELSE /\ tState' = [tState EXCEPT ![t] = "closed"]
                  /\ lastOp' = Op("closeSession", "true")
     ELSE /\ lastOp' = Op("closeSession", "false")
          /\ UNCHANGED <<transports, tState, closeCount>>
  /\ UNCHANGED <<bridgeVars, toolVars, inspectVars, configVars, serverVars, tSession, httpServer, inspectorProcess,
                 nTransports, stopped, tRequest, awaitingConnect, inHandle>>

\* closeSession(sessionId): close the stored transport and delete its entry;
\* false when there is none or when close() throws, which leaves the entry
closeSession(sid, closeThrows) ==
  /\ sid \in Presentable
  /\ closeThrows => sid \in DOMAIN transports
  /\ IF sid \in DOMAIN transports
     THEN LET t == transports[sid] IN
          /\ closeCount[t] < MaxCloses
          /\ IF closeThrows
             THEN /\ closeCount' = [closeCount EXCEPT ![t] = @ + 1]
                  /\ lastOp' = Op("closeSession", "false")
                  /\ UNCHANGED <<transports, tState>>
             ELSE /\ closeCount' = [closeCount EXCEPT ![t] = @ + 1]
                  /\ tState' = [tState EXCEPT ![t] = "closed"]
                  /\ transports' = MapDelete(MapDelete(transports, tSession[t]), sid)
                  /\ lastOp' = Op("closeSession", "true")
     ELSE /\ lastOp' = Op("closeSession", "false")
          /\ UNCHANGED <<transports, tState, closeCount>>
  /\ UNCHANGED <<bridgeVars, toolVars, inspectVars, configVars, serverVars, tSession, httpServer, inspectorProcess,
                 nTransports, stopped, tRequest, awaitingConnect, inHandle>>

\* stop() without the try/catch around transport.close(): a close that
\* throws ends the loop, and neither the registry nor the listener is reset
stop_abortsOnThrow ==
  /\ inspectorProcess' = FALSE
  /\ \E closeThrows \in BOOLEAN :
       /\ closeThrows => Registered # {}
       /\ IF closeThrows
          THEN /\ lastOp' = Op("stop", "closeError")
               /\ UNCHANGED <<closeCount, tState, transports, httpServer>>
          ELSE /\ closeCount' = [t \in Transports |->
                     IF t \in Registered THEN closeCount[t] + 1 ELSE closeCount[t]]
               /\ tState' = [t \in Transports |->
                     IF t \in Registered THEN "closed" ELSE tState[t]]
               /\ transports' = <<>>
               /\ httpServer' = IF httpServer = "none" THEN "none" ELSE "closed"
               /\ lastOp' = Op("stop", IF lastOp.op = "stop" THEN "repeated"
                                       ELSE "stopped")
  /\ stopped' = IF stopped = "no" THEN "once" ELSE "again"
  /\ UNCHANGED <<bridgeVars, toolVars, inspectVars, configVars, serverVars, tSession, nTransports, tRequest,
                 awaitingConnect, inHandle>>

\* stop(): stopInspector(), close() on every transport of the registry (each
\* close runs the transport's onclose, which deletes its own entry; a close
\* that throws is caught and logged), reset the registry, close the listener
stop ==
  /\ inspectorProcess' = FALSE
  /\ closeCount' = [t \in Transports |->
        IF t \in Registered THEN closeCount[t] + 1 ELSE closeCount[t]]
  /\ tState' = [t \in Transports |->
        IF t \in Registered THEN "closed" ELSE tState[t]]
  /\ transports' = <<>>
  /\ httpServer' = IF httpServer = "none" THEN "none" ELSE "closed"
  /\ stopped' = IF stopped = "no" THEN "once" ELSE "again"
  /\ \E closeThrows \in BOOLEAN :
       /\ closeThrows => Registered # {}
       /\ lastOp' = Op("stop", IF closeThrows THEN "closeError"
                               ELSE IF lastOp.op = "stop" THEN "repeated"
                               ELSE "stopped")
  /\ UNCHANGED <<bridgeVars, toolVars, inspectVars, configVars, serverVars, tSession, nTransports, tRequest,
                 awaitingConnect, inHandle>>

\* Object.keys(obj) of the registry: the list of its keys, each once.  The
\* keys are listed in ascending order of their names; the order JavaScript
\* lists them in (insertion order) is not modelled.
Object_keys(obj) ==
  CHOOSE q \in [1..Cardinality(DOMAIN obj) -> DOMAIN obj] :
    \A i, j \in 1..Cardinality(DOMAIN obj) : i < j => q[i] < q[j]

\* getActiveSessionCount(): Object.keys(this.transports).length
getActiveSessionCount == Len(Object_keys(transports))

\* getActiveSessions(): Object.keys(this.transports)
getActiveSessions == Object_keys(transports)

\* GET /health: res.json({status: 'ok', activeSessions, inspector, ...})
GetHealth ==
  /\ httpServer = "listening"
  /\ health' = [status |-> "ok",
                activeSessions |-> getActiveSessionCount,
                autoStarted |-> inspectorProcess]
  /\ lastOp' = Op("GET /health", "200")
  /\ UNCHANGED <<bridgeVars, httpVars, toolVars, serverVars, configVars, debugSessions>>

\* GET /debug/sessions: res.json({activeSessions: getActiveSessions().map(
\* sessionId => ({sessionId, createdAt})), totalCount: getActiveSessionCount()})
GetDebugSessions ==
  /\ httpServer = "listening"
  /\ debugSessions' =
       [activeSessions |-> [i \in DOMAIN getActiveSessions |->
                              [sessionId |-> getActiveSessions[i]]],
        totalCount |-> getActiveSessionCount]
  /\ lastOp' = Op("GET /debug/sessions", "200")
  /\ UNCHANGED <<bridgeVars, httpVars, toolVars, serverVars, configVars, health>>

\* ------------------------------------------------- the tool dispatcher
\* a JavaScript value: its kind and, for strings and Errors, its text
Val(type, v) == [type |-> type, v |-> v]
Undefined == Val("undefined", "")
Null == Val("null", "")

\* what a handler can resolve with; "circular" is an object JSON.stringify
\* cannot serialise
ToolResults == {Val("string", "v1"), Val("object", "tree"), Undefined,
                Val("circular", "")}
\* what a handler can throw or reject with
ToolFailures == {Val("Error", "e1"), Val("Error", "e2"), Val("string", "boom"),
                 Null, Undefined}
HandlerOutcomes == [kind : {"returns"}, val : ToolResults]
                     \cup [kind : {"throws"}, val : ToolFailures]

\* completion of an evaluation: a value or an exception
Returned(x) == [kind |-> "returned", val |-> x]
Threw(e) == [kind |-> "threw", val |-> e]
NotInvoked == [kind |-> "none", val |-> Undefined]

\* error.message: a TypeError on null and undefined, the message of an Error,
\* undefined on every other value
MessageOf(e) ==
  IF e.type \in {"null", "undefined"} THEN Threw(Val("Error", "TypeError"))
  ELSE IF e.type = "Error" THEN Returned(Val("string", e.v))
  ELSE Returned(Undefined)

\* JSON.stringify(obj, null, 2) of an object literal: a key whose value is
\* undefined is left out; a circular value makes it throw.  The text is
\* named by the keys it carries and their values.
JSON_stringify(obj) ==
  IF \E k \in DOMAIN obj : obj[k].type = "circular"
  THEN Threw(Val("Error", "circular structure"))
  ELSE Returned([k \in {x \in DOMAIN obj : obj[x].type # "undefined"} |-> obj[k]])

\* createSuccessResponse(data): { content: [{ type: 'text', text }] }
createSuccessResponse(data) ==
  JSON_stringify([success |-> Val("boolean", "true"), data |-> data])

\* createErrorResponse(message)
createErrorResponse(message) ==
  JSON_stringify([success |-> Val("boolean", "false"), error |-> message])

\* the callback createToolHandler(handler) returns, run on an invocation in
\* which the handler behaves as `o`: try { data = await handler(params);
\* return createSuccessResponse(data) } catch (error) { log error.message;
\* return createErrorResponse(error.message) }
createToolHandler(o) ==
  LET tried == IF o.kind = "returns" THEN createSuccessResponse(o.val)
               ELSE Threw(o.val)
  IN IF tried.kind = "returned" THEN tried
     ELSE LET message == MessageOf(tried.val)
          IN IF message.kind = "threw" THEN message
             ELSE createErrorResponse(message.val)

\* a tools/call request invokes the callback registered for `tool`
ToolCall(tool, o) ==
  /\ toolOutcome' = [toolOutcome EXCEPT ![tool] = o]
  /\ toolResponse' = [toolResponse EXCEPT ![tool] = createToolHandler(o)]
  /\ lastOp' = Op("toolCall", createToolHandler(o).kind)
  /\ UNCHANGED <<bridgeVars, httpVars, inspectVars, configVars, serverVars, layerBridge, envelope, layerCall>>

\* DevToolsRuntimeLayer.setBridge(bridge), reached through VueMcpServer.setBridge
setBridge ==
  /\ layerBridge' = TRUE
  /\ lastOp' = Op("setBridge", "set")
  /\ UNCHANGED <<bridgeVars, httpVars, inspectVars, configVars, serverVars, toolOutcome, toolResponse, envelope,
                 layerCall>>

\* the message of the Error a tool's handler throws before a request is
\* registered: the runtime layer has no bridge, or sendCommand fails one of its
\* precondition checks (the method name of a tool is never empty)
InvokeError ==
  IF ~layerBridge THEN "No bridge available"
  ELSE IF ~wsAvailable THEN "WebSocket server not available"
  ELSE "Vue MCP client not ready"

\* a tools/call request for `tool` whose handler fails at once:
\* devtoolsLayer.getComponentTree() and the like throw without a bridge, and
\* bridge.sendCommand throws without the transport or before the client is ready
InvokeRejected(tool) ==
  /\ ~layerBridge \/ ~wsAvailable \/ ~clientReady
  /\ ToolCall(tool, [kind |-> "throws", val |-> Val("Error", InvokeError)])

\* a tools/call request for `tool` whose handler gets as far as registering a
\* request: the handler returns the promise of bridge.sendCommand(tool) and
\* the tool callback is suspended at `await handler(params)`
InvokeSend(tool, sendThrows) ==
  /\ layerBridge
  /\ SendCommand(tool, sendThrows, TRUE)

\* what `await handler(params)` yields once the promise of call c is settled:
\* the result of the reply, or the Error the call was rejected with
HandlerOutcomeOf(c) ==
  IF callerState[c] = "resolved"
  THEN [kind |-> "returns", val |-> Val("object", value[c])]
  ELSE [kind |-> "throws", val |-> Val("Error",
          CASE outcome[c] = "error" -> value[c]
            [] outcome[c] = "timeout" -> "Request timed out"
            [] outcome[c] = "raceTimeout" -> "Request timed out after 10000ms"
            [] outcome[c] = "shutdown" -> "ViteDevToolsBridge shutting down"
            [] OTHER -> "send failed")]

\* the tool callback suspended at `await handler(params)` for call c resumes
\* when the promise is settled and returns (or throws)
ToolReturn(c) ==
  /\ callerState[c] \in {"resolved", "rejected"}
  /\ envelope[c] = NotInvoked
  /\ envelope' = [envelope EXCEPT ![c] = createToolHandler(HandlerOutcomeOf(c))]
  /\ lastOp' = Op("toolReturn", createToolHandler(HandlerOutcomeOf(c)).kind)
  /\ UNCHANGED <<bridgeVars, httpVars, inspectVars, configVars, serverVars, toolOutcome, toolResponse, layerBridge,
                 layerCall>>

\* ------------------------------------------------- the runtime layer
\* the operations of DevToolsRuntimeLayer that reach the running application
LayerOps == {"getComponentTree", "getComponentState", "updateComponentState",
             "highlightComponent", "getRouterInfo", "getPiniaState",
             "getPiniaTree"}
\* those that take a component selector
SelectorOps == {"getComponentState", "updateComponentState",
                "highlightComponent"}

\* a value passed as selector: its kind, its text when it is a string, and
\* its properties name, id and domSelector (undefined on a value without them)
Selector(type, v, name, id, domSelector) ==
  [type |-> type, v |-> v, name |-> name, id |-> id, domSelector |-> domSelector]
NoSelector == Selector("undefined", "", Undefined, Undefined, Undefined)
Selectors ==
  {Selector(ty, "", Undefined, Undefined, Undefined) :
     ty \in {"undefined", "null", "array"}}
    \cup {Selector("string", "App", Undefined, Undefined, Undefined)}
    \cup {Selector("object", "", n, i, d) :
            n \in {Undefined, Val("string", ""), Val("string", "App")},
            i \in {Undefined, Val("string", "c1")},
            d \in {Undefined, Val("string", "#app")}}

\* a value of patch.path: undefined, a string, or an array, given by the
\* typeof of each element
Path(type, elems) == [type |-> type, elems |-> elems]
Paths == {Path("undefined", <<>>), Path("string", <<>>), Path("array", <<>>),
          Path("array", <<"string">>), Path("array", <<"string", "string">>),
          Path("array", <<"string", "number">>), Path("array", <<"number">>)}
\* a value passed as patch: its kind, its text when it is a string, and its
\* property path
Patch(type, v, path) == [type |-> type, v |-> v, path |-> path]
NoPatch == Patch("undefined", "", Path("undefined", <<>>))
Patches ==
  {NoPatch, Patch("null", "", Path("undefined", <<>>)),
   Patch("string", "a.b", Path("undefined", <<>>))}
    \cup {Patch("object", "", p) : p \in Paths}

\* !x: null, undefined and the empty string are falsy
Falsy(x) == x.type \in {"undefined", "null"} \/ (x.type = "string" /\ x.v = "")
\* typeof x: 'object' for objects, arrays and null
TypeOf(x) == IF x.type \in {"object", "array", "null"} THEN "object" ELSE x.type

\* validateComponentSelector(selector)
validateComponentSelector(selector) ==
  IF Falsy(selector) \/ TypeOf(selector) # "object"
  THEN Threw(Val("Error", "Invalid component selector: must be an object"))
  ELSE IF Falsy(selector.name) /\ Falsy(selector.id) /\ Falsy(selector.domSelector)
  THEN Threw(Val("Error",
         "Invalid component selector: must provide name, id, or domSelector"))
  ELSE Returned(Undefined)

\* validateStatePatch without the check of the elements of the path
validateStatePatch_noElementCheck(patch) ==
  IF Falsy(patch) \/ TypeOf(patch) # "object"
  THEN Threw(Val("Error", "Invalid state patch: must be an object"))
  ELSE IF patch.path.type # "array" \/ Len(patch.path.elems) = 0
  THEN Threw(Val("Error", "Invalid state patch: path must be a non-empty array"))
  ELSE Returned(Undefined)

\* validateStatePatch(patch)
validateStatePatch(patch) ==
  IF Falsy(patch) \/ TypeOf(patch) # "object"
  THEN Threw(Val("Error", "Invalid state patch: must be an object"))
  ELSE IF patch.path.type # "array" \/ Len(patch.path.elems) = 0
  THEN Threw(Val("Error", "Invalid state patch: path must be a non-empty array"))
  ELSE IF \E i \in DOMAIN patch.path.elems : patch.path.elems[i] # "string"
  THEN Threw(Val("Error", "Invalid state patch: all path elements must be strings"))
  ELSE Returned(Undefined)

\* the local checks of the operation `op`, in the order the method makes
\* them: the bridge, then the selector, then the patch; Returned when the
\* method goes on to call the bridge
LayerChecks(op, selector, patch) ==
  IF ~layerBridge
  THEN Threw(Val("Error", IF op \in SelectorOps THEN "No bridge available"
                 ELSE "No bridge available - DevTools integration not configured"))
  ELSE IF op \in SelectorOps /\ validateComponentSelector(selector).kind = "threw"
  THEN validateComponentSelector(selector)
  ELSE IF op = "updateComponentState" /\ validateStatePatch(patch).kind = "threw"
  THEN validateStatePatch(patch)
  ELSE Returned(Undefined)

\* no operation of the layer was called yet
NoLayerCall == [op |-> "none", selector |-> NoSelector, patch |-> NoPatch,
                bridge |-> "none", error |-> ""]

\* one call of an operation of the layer: it throws on a failed local check
\* and otherwise returns this.bridge.<op>(...), the method of the bridge of
\* the same name.  What the bridge does with the call is the subject of
\* SendCommand; here the call is recorded.
LayerCall(op, selector, patch) ==
  /\ op \notin SelectorOps => selector = NoSelector
  /\ op # "updateComponentState" => patch = NoPatch
  /\ LET r == LayerChecks(op, selector, patch) IN
       /\ layerCall' = [op |-> op, selector |-> selector, patch |-> patch,
                        bridge |-> IF r.kind = "threw" THEN "none" ELSE op,
                        error |-> IF r.kind = "threw" THEN r.val.v ELSE ""]
       /\ lastOp' = Op(op, IF r.kind = "threw" THEN "threw" ELSE "bridge")
  /\ UNCHANGED <<bridgeVars, httpVars, inspectVars, configVars, serverVars, toolOutcome, toolResponse,
                 layerBridge, envelope>>

\* ------------------------------------------------- the server facade
\* this.httpServer.stop() as VueMcpServer.stop() calls it: the synchronous
\* part of VueMcpHttpServer.stop(), which stops the Inspector, closes every
\* registered transport, resets the registry and closes the listener
httpServerStop ==
  /\ inspectorProcess' = FALSE
  /\ closeCount' = [t \in Transports |->
        IF t \in Registered THEN closeCount[t] + 1 ELSE closeCount[t]]
  /\ tState' = [t \in Transports |->
        IF t \in Registered THEN "closed" ELSE tState[t]]
  /\ transports' = <<>>
  /\ httpServer' = IF httpServer = "none" THEN "none" ELSE "closed"
  /\ stopped' = IF stopped = "no" THEN "once" ELSE "again"
  /\ UNCHANGED <<tSession, nTransports, tRequest, awaitingConnect, inHandle>>

\* this.devtoolsLayer.cleanup(): bridge.cleanup() when the layer has a bridge.
\* With features.devtools off the call is skipped, which has the effect of a
\* layer without a bridge.
layerCleanup ==
  IF layerBridge
  THEN /\ timerArmed' = [c \in Calls |->
             IF c \in EntryCalls THEN FALSE ELSE timerArmed[c]]
       /\ Settle(EntryCalls, "rejected", "shutdown", NoValue)
       /\ pendingRequests' = <<>>
       /\ clientReady' = FALSE
       /\ cleaned' = TRUE
       /\ UNCHANGED <<variant, wsAvailable, messageId, minted, nCalls, reqId,
                      raceArmed, emitted>>
  ELSE UNCHANGED bridgeVars

\* VueMcpServer.start() up to its first await: a no-op with a warning when
\* isStarted, otherwise the call goes on to devtoolsLayer.initialize() and
\* httpServer.start() and is suspended until the listener reports
serverStart ==
  /\ IF isStarted
     THEN /\ lastOp' = Op("VueMcpServer.start", "alreadyStarted")
          /\ UNCHANGED serverVars
     ELSE /\ starting < MaxLifecycleCalls
          /\ starting' = starting + 1
          /\ lastOp' = Op("VueMcpServer.start", "starting")
          /\ UNCHANGED <<isStarted, stopping>>
  /\ UNCHANGED <<bridgeVars, httpVars, toolVars, inspectVars, configVars>>

\* a suspended start() resumes.  httpServer.start() resolved: the listener
\* listens (it cannot while this server's own listener holds the port), the
\* Inspector is spawned or not, and isStarted = true.  Or it rejected, e.g.
\* with EADDRINUSE: start() throws and assigns nothing.
serverStartDone(ok, spawnInspector) ==
  /\ starting > 0
  /\ starting' = starting - 1
  /\ IF ok
     THEN /\ httpServer # "listening"
          /\ httpServer' = "listening"
          /\ inspectorProcess' = spawnInspector
          /\ isStarted' = TRUE
          /\ lastOp' = Op("VueMcpServer.start", "started")
     ELSE /\ ~spawnInspector
          /\ lastOp' = Op("VueMcpServer.start", "failed")
          /\ UNCHANGED <<httpServer, inspectorProcess, isStarted>>
  /\ UNCHANGED <<bridgeVars, toolVars, inspectVars, configVars, stopping, transports, tState,
                 tSession, closeCount, nTransports, stopped, tRequest,
                 awaitingConnect, inHandle>>

\* VueMcpServer.stop() up to its first await: a no-op with a warning when not
\* isStarted, otherwise httpServer.stop() is called and the call is suspended
\* until the listener has closed
serverStop ==
  /\ IF ~isStarted
     THEN /\ lastOp' = Op("VueMcpServer.stop", "notStarted")
          /\ UNCHANGED <<serverVars, httpVars>>
     ELSE /\ stopping < MaxLifecycleCalls
          /\ stopping' = stopping + 1
          /\ httpServerStop
          /\ lastOp' = Op("VueMcpServer.stop", "stopping")
          /\ UNCHANGED <<isStarted, starting>>
  /\ UNCHANGED <<bridgeVars, toolVars, inspectVars, configVars>>

\* a suspended stop() resumes: the layer is cleaned up and isStarted = false,
\* or one of the awaited calls rejected, stop() throws and assigns nothing
serverStopDone(ok) ==
  /\ stopping > 0
  /\ stopping' = stopping - 1
  /\ IF ok
     THEN /\ layerCleanup
          /\ isStarted' = FALSE
          /\ lastOp' = Op("VueMcpServer.stop", "stopped")
     ELSE /\ lastOp' = Op("VueMcpServer.stop", "failed")
          /\ UNCHANGED <<bridgeVars, isStarted>>
  /\ UNCHANGED <<httpVars, toolVars, inspectVars, configVars, starting>>

\* isRunning()
isRunning == isStarted

\* ------------------------------------------------- the configuration
\* DEFAULT_CONFIG.PORT
DEFAULT_CONFIG_PORT == 8890

\* a value of a field: a number, a string given by its characters, a value
\* of another kind (undefined, a RegExp)
Num(n) == [type |-> "number", n |-> n, chars |-> <<>>]
Str(chars) == [type |-> "string", n |-> 0, chars |-> chars]
Other(type) == [type |-> type, n |-> 0, chars |-> <<>>]
NoNum == Other("undefined")
NoStr == Other("undefined")

\* the fields of the configuration validateConfig reads
Fields == {"port", "inspector.port", "mcpServerInfo.name",
           "mcpServerInfo.version", "appendTo"}

\* the values a caller may give a field.  Ports are integers; a character
\* of a string is a digit "1", a letter "a", a dot, a hyphen or a blank.
FieldValues(f) ==
  CASE f = "port" -> {Num(0), Num(DEFAULT_CONFIG_PORT), Num(65535), Num(65536), NoNum}
    [] f = "inspector.port" -> {Num(0), Num(6274), Num(65536), NoNum}
    [] f = "mcpServerInfo.name" ->
         {Str(<<"a">>), Str(<<>>), Str(<<" ">>), Str(<<" ", "a", " ">>), NoStr}
    [] f = "mcpServerInfo.version" ->
         {Str(<<"1", ".", "1", ".", "1">>), Str(<<"1", ".", "1">>),
          Str(<<"1", "1", ".", "1", ".", "1", "-", "a", "1">>),
          Str(<<"1", ".", "1", ".", "1", "-">>), Str(<<>>), NoStr}
    [] f = "appendTo" ->
         {Other("RegExp"), Str(<<"a">>), Str(<<>>), Num(1), Other("undefined")}

\* createDefaultConfig()
createDefaultConfig ==
  [f \in Fields |->
     CASE f = "port" -> Num(DEFAULT_CONFIG_PORT)
       [] f = "inspector.port" -> Num(6274)
       [] f = "mcpServerInfo.name" -> Str(<<"a">>)
       [] f = "mcpServerInfo.version" -> Str(<<"1", ".", "1", ".", "1">>)
       [] f = "appendTo" -> Other("RegExp")]

\* a value that counts as true in a condition: not undefined, not the empty
\* string, not 0
IsTruthy(x) ==
  /\ x.type # "undefined"
  /\ ~(x.type = "string" /\ x.chars = <<>>)
  /\ ~(x.type = "number" /\ x.n = 0)

\* isValidPort(port): Number.isInteger(port) && port > 0 && port <= 65535
isValidPort(port) == port.type = "number" /\ port.n > 0 /\ port.n <= 65535

\* String.prototype.trim on the characters of a string
RECURSIVE TrimStart(_)
TrimStart(q) == IF q # <<>> /\ Head(q) = " " THEN TrimStart(Tail(q)) ELSE q
RECURSIVE TrimEnd(_)
TrimEnd(q) ==
  IF q # <<>> /\ q[Len(q)] = " " THEN TrimEnd(SubSeq(q, 1, Len(q) - 1)) ELSE q
Trim(q) == TrimEnd(TrimStart(q))

\* /^\d+\.\d+\.\d+(?:-[a-zA-Z0-9]+)?$/ as an automaton: the state after
\* reading q from state st; states 5 and 7 accept and 0 rejects for good
RECURSIVE SemverRun(_, _)
SemverRun(st, q) ==
  IF q = <<>> THEN st
  ELSE LET ch == Head(q)
           nxt == CASE st = 1 /\ ch = "1" -> 2
                    [] st = 2 /\ ch = "1" -> 2
                    [] st = 2 /\ ch = "." -> 3
                    [] st = 3 /\ ch = "1" -> 4
                    [] st = 4 /\ ch = "1" -> 4
                    [] st = 4 /\ ch = "." -> 8
                    [] st = 8 /\ ch = "1" -> 5
                    [] st = 5 /\ ch = "1" -> 5
                    [] st = 5 /\ ch = "-" -> 6
                    [] st = 6 /\ ch \in {"1", "a"} -> 7
                    [] st = 7 /\ ch \in {"1", "a"} -> 7
                    [] OTHER -> 0
       IN SemverRun(nxt, Tail(q))

\* isValidVersion(version)
isValidVersion(version) == SemverRun(1, version.chars) \in {5, 7}

\* validateConfig() on the configuration cfg: "ok" when it returns, and
\* otherwise the field of the ConfigValidationError it throws
validateConfig(cfg) ==
  IF ~isValidPort(cfg["port"]) THEN "port"
  ELSE IF IsTruthy(cfg["inspector.port"]) /\ ~isValidPort(cfg["inspector.port"])
  THEN "inspector.port"
  ELSE IF \/ ~IsTruthy(cfg["mcpServerInfo.name"])
          \/ Len(Trim(cfg["mcpServerInfo.name"].chars)) = 0
  THEN "mcpServerInfo.name"
  ELSE IF /\ IsTruthy(cfg["mcpServerInfo.version"])
          /\ ~isValidVersion(cfg["mcpServerInfo.version"])
  THEN "mcpServerInfo.version"
  ELSE IF /\ IsTruthy(cfg["appendTo"])
          /\ cfg["appendTo"].type # "string"
          /\ cfg["appendTo"].type # "RegExp"
  THEN "appendTo"
  ELSE "ok"

\* getConfig(): a copy of this.config
getConfig == config

\* the outcome of update() and merge() once this.config holds cfg
Validated(cfg) ==
  IF validateConfig(cfg) = "ok" THEN "ok" ELSE "ConfigValidationError"

\* the fields update(key, newValue) assigns: the key itself, or the fields of
\* the object that replaces this.config.inspector or this.config.mcpServerInfo
KeyFields(key) ==
  CASE key = "inspector" -> {"inspector.port"}
    [] key = "mcpServerInfo" -> {"mcpServerInfo.name", "mcpServerInfo.version"}
    [] OTHER -> {key}

\* update(key, value): this.config[key] = value, then validateConfig(); the
\* value is given by the fields it assigns
update(key, newValue) ==
  /\ config' = [f \in Fields |->
                  IF f \in KeyFields(key) THEN newValue[f] ELSE config[f]]
  /\ lastOp' = Op("update", Validated(config'))
  /\ UNCHANGED <<bridgeVars, httpVars, toolVars, inspectVars, serverVars>>

\* deepMerge(target, source): every field the source carries is assigned to
\* the target in place, nested objects field by field.  A RegExp in the
\* source is an object without enumerable keys: merging it leaves a target
\* value that counts as true as it is, and puts {} in the place of one that
\* does not.
deepMerge(target, source) ==
  [f \in Fields |->
     IF f \notin DOMAIN source THEN target[f]
     ELSE IF source[f].type = "RegExp"
     THEN (IF IsTruthy(target[f]) THEN target[f] ELSE Other("object"))
     ELSE source[f]]

\* merge(options): this.config = deepMerge(this.config, options), then
\* validateConfig()
merge(options) ==
  /\ config' = deepMerge(config, options)
  /\ lastOp' = Op("merge", Validated(config'))
  /\ UNCHANGED <<bridgeVars, httpVars, toolVars, inspectVars, serverVars>>

\* ------------------------------------------------------ initial state
InitBridge ==
  /\ variant \in Variants
  /\ wsAvailable \in BOOLEAN
  /\ clientReady = FALSE
  /\ pendingRequests = <<>>
  /\ messageId = 0
  /\ minted = {}
  /\ nCalls = 0
  /\ reqId = [c \in Calls |-> NoId]
  /\ timerArmed = [c \in Calls |-> FALSE]
  /\ raceArmed = [c \in Calls |-> FALSE]
  /\ cmdState = [c \in Calls |-> "none"]
  /\ settles = [c \in Calls |-> 0]
  /\ callerState = [c \in Calls |-> "none"]
  /\ outcome = [c \in Calls |-> "none"]
  /\ value = [c \in Calls |-> NoValue]
  /\ emitted = <<>>
  /\ cleaned = FALSE

InitHttp ==
  /\ transports = <<>>
  /\ tState = [t \in Transports |-> "absent"]
  /\ tSession = [t \in Transports |-> NoSession]
  /\ closeCount = [t \in Transports |-> 0]
  /\ httpServer = "none"
  /\ inspectorProcess = FALSE
  /\ nTransports = 0
  /\ stopped = "no"
  /\ tRequest = [t \in Transports |-> Request(NoSession, FALSE)]
  /\ awaitingConnect = [t \in Transports |-> FALSE]
  /\ inHandle = [t \in Transports |-> 0]

InitServer ==
  /\ isStarted = FALSE
  /\ starting = 0
  /\ stopping = 0

\* new VueMcpConfigManager() without user options
InitConfig == config = createDefaultConfig

InitInspect ==
  /\ health = [status |-> "none", activeSessions |-> 0, autoStarted |-> FALSE]
  /\ debugSessions = [activeSessions |-> <<>>, totalCount |-> 0]

InitTools ==
  /\ toolOutcome = [tool \in Tools |-> NotInvoked]
  /\ toolResponse = [tool \in Tools |-> NotInvoked]
  /\ layerBridge = FALSE
  /\ envelope = [c \in Calls |-> NotInvoked]
  /\ layerCall = NoLayerCall

Init ==
  /\ InitBridge
  /\ InitHttp
  /\ InitTools
  /\ InitInspect
  /\ InitServer
  /\ InitConfig
  /\ lastOp = Op("init", "none")

BridgeNext(distinct) ==
  \/ \E m \in Methods : SendCommandRejected(m)
  \/ \E m \in Methods, t \in BOOLEAN : SendCommand(m, t, distinct)
  \/ \E r \in ReqIds, v \in Results : handleClientResponse(r, v)
  \/ \E r \in ReqIds, v \in ErrorTexts : handleClientError(r, v)
  \/ \E e \in ReplyEvents, d \in MalformedData : handleInvalidData(e, d)
  \/ \E c \in Calls : RequestTimeout(c)
  \/ \E c \in Calls : createTimeoutPromise(c)
  \/ cleanup
  \/ \E b \in BOOLEAN : setClientReady(b)
  \/ handleClientReady
  \/ handleClientReadyRequest

HttpNext ==
  \/ \E i \in BOOLEAN : start(i)
  \/ PostInitialize
  \/ \E sid \in SessionIds \cup {NoSession}, init \in BOOLEAN :
        PostDevelopmentMode(sid, init)
  \/ \E sid \in SessionIds, init \in BOOLEAN : PostExisting(sid, init)
  \/ \E t \in Transports : ConnectRejected(t)
  \/ \E t \in Transports : HandleNotInitialized(t)
  \/ \E t \in Transports : onsessioninitialized(t)
  \/ \E t \in Transports : HandleRequestDone(t)
  \/ \E t \in Transports, h \in BOOLEAN : HandleRequestThrows(t, h)
  \/ \E m \in SessionMethods, sid \in SessionIds \cup {NoSession} :
        handleSessionRequest(m, sid)
  \/ \E sid \in SessionIds \cup {NoSession}, closeThrows \in BOOLEAN :
        closeSession(sid, closeThrows)
  \/ stop

\* the bridge, correlation ids pairwise different
Next == BridgeNext(TRUE)
Spec == Init /\ [][Next]_vars

\* the bridge with generateRequestId() free to return a string it returned
\* before: Date.now() repeats within a millisecond and Math.random() may
\* return the same number twice
SpecAnyId == Init /\ [][BridgeNext(FALSE)]_vars

\* the HTTP server; it shares nothing with the bridge, which stays in one of
\* its initial states
HttpInit == Init /\ variant = "base" /\ wsAvailable
HttpSpec == HttpInit /\ [][HttpNext]_vars

\* the sessions of the HTTP server from initialize to close, and the two
\* diagnostic endpoints read at any time
InspectNext ==
  \/ \E i \in BOOLEAN : start(i)
  \/ PostInitialize
  \/ \E sid \in SessionIds \cup {NoSession}, init \in BOOLEAN :
        PostDevelopmentMode(sid, init)
  \/ \E t \in Transports : ConnectRejected(t)
  \/ \E t \in Transports : HandleNotInitialized(t)
  \/ \E t \in Transports : onsessioninitialized(t)
  \/ \E sid \in SessionIds \cup {NoSession} : handleSessionRequest("DELETE", sid)
  \/ \E sid \in SessionIds \cup {NoSession}, closeThrows \in BOOLEAN :
        closeSession(sid, closeThrows)
  \/ stop
  \/ GetHealth
  \/ GetDebugSessions
InspectSpec == HttpInit /\ [][InspectNext]_vars

\* the tool dispatcher
ToolNext == \E tool \in Tools, o \in HandlerOutcomes : ToolCall(tool, o)
ToolSpec == Init /\ [][ToolNext]_vars

\* the tools invoked end to end; every tool runs through the same callback of
\* createToolHandler and the same sendCommand, with its own command name
InvokedTools == Tools \cap Methods

\* tool invocations end to end: the runtime layer with or without a bridge,
\* the peer becoming ready, replying with a result or an error or not at all,
\* and cleanup() of the bridge at any time
InvokeNext ==
  \/ setBridge
  \/ \E tool \in InvokedTools : InvokeRejected(tool)
  \/ \E tool \in InvokedTools, t \in BOOLEAN : InvokeSend(tool, t)
  \/ handleClientReady
  \/ \E r \in ReqIds : handleClientResponse(r, "v1")
  \/ \E r \in ReqIds : handleClientError(r, "v2")
  \/ \E c \in Calls : RequestTimeout(c)
  \/ \E c \in Calls : createTimeoutPromise(c)
  \/ cleanup
  \/ \E c \in Calls : ToolReturn(c)

\* setTimeout callbacks run once their delay has passed
TimersFire ==
  \A c \in Calls : WF_vars(RequestTimeout(c)) /\ WF_vars(createTimeoutPromise(c))
FairSpec == Spec /\ TimersFire

\* the continuation of an await runs once its promise is settled
ContinuationsRun == \A c \in Calls : WF_vars(ToolReturn(c))
InvokeSpec == Init /\ [][InvokeNext]_vars /\ TimersFire /\ ContinuationsRun

\* the two shutdown paths side by side: the client becomes ready, calls are
\* issued, sessions are opened by initialize requests, and cleanup() and
\* stop() run any number of times in any order
ShutdownNext ==
  \/ handleClientReady
  \/ \E m \in Methods, t \in BOOLEAN : SendCommand(m, t, TRUE)
  \/ cleanup
  \/ \E i \in BOOLEAN : start(i)
  \/ PostInitialize
  \/ \E t \in Transports : onsessioninitialized(t)
  \/ stop
ShutdownSpec == Init /\ [][ShutdownNext]_vars

\* the runtime layer called with any operation and any arguments, before and
\* after a bridge is set
LayerNext ==
  \/ setBridge
  \/ \E op \in LayerOps, selector \in Selectors, patch \in Patches :
        LayerCall(op, selector, patch)
LayerSpec == HttpInit /\ [][LayerNext]_vars

\* the server facade started and stopped any number of times, with calls
\* overlapping, while sessions are opened and the bridge becomes ready
ServerNext ==
  \/ serverStart
  \/ \E ok \in BOOLEAN, i \in BOOLEAN : serverStartDone(ok, i)
  \/ serverStop
  \/ \E ok \in BOOLEAN : serverStopDone(ok)
  \/ PostInitialize
  \/ \E t \in Transports : onsessioninitialized(t)
  \/ setBridge
  \/ handleClientReady
ServerSpec == HttpInit /\ [][ServerNext]_vars

\* the keys update() is called with, and the objects of options merge() is
\* called with: options that carry one field or two
UpdateKeys == {"port", "inspector", "mcpServerInfo", "appendTo"}
FieldAssignments(F) ==
  {a \in [F -> UNION {FieldValues(f) : f \in F}] : \A f \in F : a[f] \in FieldValues(f)}
MergeOptions ==
  UNION {FieldAssignments({f, g}) : f \in Fields, g \in Fields}

\* the configuration manager under any sequence of update() and merge()
ConfigNext ==
  \/ \E key \in UpdateKeys : \E newValue \in FieldAssignments(KeyFields(key)) :
        update(key, newValue)
  \/ \E options \in MergeOptions : merge(options)
ConfigSpec == HttpInit /\ [][ConfigNext]_vars

\* ================================================================ claims
Settled == {"resolved", "rejected"}

\* C1: every sendCommand call that registered an entry is settled exactly
\* once, by a response, an error, its timeout, the send failure or cleanup():
\* resolve/reject is invoked at most once on it under every interleaving, a
\* settled call was settled by one of the five, and (timers firing) a pending
\* call is eventually settled.
C1_SettledExactlyOnce ==
  /\ [](\A c \in Calls :
          /\ settles[c] <= 1
          /\ callerState[c] = cmdState[c]
          /\ cmdState[c] \in Settled =>
               /\ settles[c] = 1
               /\ outcome[c] \in {"response", "error", "timeout", "sendFailed",
                                  "shutdown"}
          /\ cmdState[c] = "pending" => settles[c] = 0 /\ outcome[c] = "none")
  /\ \A c \in Calls : (cmdState[c] = "pending") ~> (callerState[c] \in Settled)

\* two calls were registered and settled in different ways, one by a
\* response and one by its timeout
C1_Witness ==
  \E c, d \in Calls : outcome[c] = "response" /\ outcome[d] = "timeout"

\* C2: a reply settles the call registered under the reply's requestId, with
\* the reply's payload, and no other call, whatever the order of the replies.
C2_RepliesSettleOwnCall ==
  [][\A r \in ReqIds, v \in Results :
       (handleClientResponse(r, v) \/ handleClientError(r, v)) =>
         \A c \in Calls :
           IF callerState[c] = "pending" /\ reqId[c] = r
           THEN /\ callerState'[c] =
                     (IF handleClientResponse(r, v) THEN "resolved" ELSE "rejected")
                /\ value'[c] = v
           ELSE /\ callerState'[c] = callerState[c]
                /\ value'[c] = value[c]
                /\ outcome'[c] = outcome[c]]_vars

\* the later call got its reply while the earlier one was still pending
C2_Witness ==
  \E a, b \in Calls :
    /\ a < b
    /\ callerState[a] = "pending" /\ reqId[a] \in Pending
    /\ outcome[b] = "response" /\ value[b] = "v2"
    /\ lastOp = Op("response", "resolved")

\* C3: a response or error event whose requestId is not in pendingRequests
\* settles no call and leaves pendingRequests and every timer unchanged.
C3_UnknownReplyIsNoOp ==
  [][\A r \in ReqIds, v \in Results :
       ((handleClientResponse(r, v) \/ handleClientError(r, v)) /\ r \notin Pending)
         => UNCHANGED <<pendingRequests, timerArmed, raceArmed, settles,
                        cmdState, callerState, outcome, value>>]_vars

\* an error event with an unknown id was dropped while a call was pending
\* and after another call had timed out
C3_Witness ==
  /\ lastOp = Op("error", "unknown")
  /\ Pending # {}
  /\ \E c \in Calls : outcome[c] = "timeout"

\* C4: a registered call that gets no reply is rejected with the request
\* timeout when its timer fires, its requestId then leaves pendingRequests and
\* stays out, and (timers firing) a pending call does not stay pending.
C4_TimeoutRejectsAndRemoves ==
  /\ [][\A c \in Calls :
          (RequestTimeout(c) /\ callerState[c] = "pending") =>
             /\ callerState'[c] = "rejected"
             /\ outcome'[c] = "timeout"
             /\ reqId[c] \notin DOMAIN pendingRequests']_vars
  /\ [](\A c \in Calls : outcome[c] = "timeout" => reqId[c] \notin Pending)
  /\ \A c \in Calls :
       (callerState[c] = "pending")
          ~> (outcome[c] \in {"timeout", "response", "error", "shutdown"})

\* a call timed out while another call, registered later, is still pending
C4_Witness ==
  /\ lastOp = Op("timeout", "rejected")
  /\ \E c, d \in Calls :
       outcome[c] = "timeout" /\ callerState[d] = "pending" /\ reqId[d] \in Pending

\* C5 (as claimed): every armed timer sendCommand created, the entry's timer
\* and the timer of createTimeoutPromise alike, belongs to a call whose
\* requestId is still in pendingRequests.
C5_NoTimerLeak ==
  \A c \in Calls :
    (timerArmed[c] \/ raceArmed[c]) =>
       (reqId[c] \in Pending /\ pendingRequests[reqId[c]] = c)

\* C6: sendCommand without the transport or before the client is ready fails
\* at once with the matching error and registers, arms and emits nothing.
C6_PreconditionFailsFast ==
  [][\A m \in Methods :
       /\ SendCommandRejected(m) =>
            /\ UNCHANGED <<pendingRequests, timerArmed, raceArmed, emitted,
                           nCalls, callerState>>
            /\ ~(variant = "base" /\ m = "") =>
                 lastOp'.res = (IF ~wsAvailable THEN "wsNotAvailable"
                                ELSE "clientNotReady")
       /\ (~wsAvailable \/ ~clientReady) =>
            \A t \in BOOLEAN : ~SendCommand(m, t, TRUE)]_vars

\* sendCommand failed with "client not ready" while an earlier call was pending
C6_Witness ==
  /\ lastOp = Op("sendCommand", "clientNotReady")
  /\ Pending # {}
  /\ ~clientReady

\* C7: when ws.send throws inside sendCommand the call is rejected with the
\* send error, its timer is cancelled, its entry is gone, and every other
\* entry and timer is as before.
C7_SendFailureCleansUp ==
  [][\A m \in Methods :
       SendCommand(m, TRUE, TRUE) =>
         LET c == nCalls + 1 IN
         /\ callerState'[c] = "rejected"
         /\ outcome'[c] = "sendFailed"
         /\ ~timerArmed'[c]
         /\ reqId'[c] \notin DOMAIN pendingRequests'
         /\ pendingRequests' = pendingRequests
         /\ \A d \in Calls \ {c} :
              timerArmed'[d] = timerArmed[d] /\ callerState'[d] = callerState[d]
         /\ emitted' = emitted]_vars

\* a send failed while another call was pending
C7_Witness ==
  /\ lastOp = Op("sendCommand", "sendFailed")
  /\ Pending # {}
  /\ \E c \in Calls : outcome[c] = "sendFailed"

\* C8: cleanup() rejects every pending call with the shutting-down error,
\* cancels their timers, empties pendingRequests and clears clientReady.
C8_CleanupDrainsAll ==
  [][cleanup =>
       /\ \A c \in Calls :
            callerState[c] = "pending" =>
              /\ callerState'[c] = "rejected"
              /\ outcome'[c] = "shutdown"
       /\ \A c \in Calls : ~timerArmed'[c] /\ callerState'[c] # "pending"
       /\ pendingRequests' = <<>>
       /\ ~clientReady']_vars

\* cleanup() ran with two calls pending
C8_Witness ==
  /\ lastOp.op = "cleanup"
  /\ \E c, d \in Calls : c # d /\ outcome[c] = "shutdown" /\ outcome[d] = "shutdown"

\* C9 (as claimed): once cleanup() has run, no sendCommand call gets past the
\* precondition checks, client-ready events and notifications notwithstanding.
C9_NoSendAfterCleanup ==
  (cleaned /\ lastOp.op = "sendCommand") =>
     lastOp.res \in {"methodRequired", "wsNotAvailable", "clientNotReady"}

\* C10: a second cleanup() right after cleanup() changes nothing on the
\* bridge and rejects no call again; a second stop() right after stop()
\* closes nothing and leaves the registry empty; no transport is ever closed
\* twice.
C10_ShutdownIdempotent ==
  /\ [][(cleanup /\ lastOp.op = "cleanup") =>
          (UNCHANGED bridgeVars /\ pendingRequests' = <<>> /\ ~clientReady')]_vars
  /\ [][(stop /\ lastOp.op = "stop") =>
          (UNCHANGED <<transports, tState, tSession, closeCount, httpServer,
                       inspectorProcess>> /\ transports' = <<>>)]_vars
  /\ [](\A t \in Transports : closeCount[t] <= 1)

\* cleanup() was repeated after it had rejected a pending call, and stop()
\* had run twice after closing a session's transport
C10_Witness ==
  /\ lastOp = Op("cleanup", "repeated")
  /\ \E c \in Calls : outcome[c] = "shutdown"
  /\ stopped = "again"
  /\ \E t \in Transports : closeCount[t] = 1

\* C11 (as claimed): every session in the registry was stored in the handling
\* of a POST /mcp that carried no mcp-session-id header and an initialize
\* body; a POST that carried a session id never leads to a stored session.
C11_OnlyInitializeWithoutIdStores ==
  \A s \in DOMAIN transports : tRequest[transports[s]] = Request(NoSession, TRUE)

\* C12 (as claimed): a POST /mcp that carried a session id which is not in
\* the registry gets no transport: none is constructed or connected for it.
C12_NoTransportForUnknownId ==
  \A t \in Transports : t <= nTransports => tRequest[t].sid = NoSession

\* C13: GET and DELETE without the id of a registered session are answered
\* with 400 and change nothing; with the id of a registered session the
\* request goes to the transport stored under that id and to no other: GET
\* enters its handleRequest, DELETE closes it and removes its entry only.
C13_SessionRequestNeedsSession ==
  [][\A m \in SessionMethods, sid \in SessionIds \cup {NoSession} :
       handleSessionRequest(m, sid) =>
         IF sid = NoSession \/ sid \notin DOMAIN transports
         THEN lastOp' = Op(m, "400") /\ UNCHANGED httpVars
         ELSE LET t == transports[sid] IN
              /\ tSession[t] = sid
              /\ lastOp' = Op(m, "handled")
              /\ \A u \in Transports \ {t} :
                   /\ inHandle'[u] = inHandle[u]
                   /\ closeCount'[u] = closeCount[u]
                   /\ tState'[u] = tState[u]
              /\ m = "GET" =>
                   /\ inHandle'[t] = inHandle[t] + 1
                   /\ UNCHANGED <<transports, closeCount, tState>>
              /\ m = "DELETE" =>
                   /\ closeCount'[t] = closeCount[t] + 1
                   /\ transports' = MapDelete(transports, sid)]_vars

\* a GET with the id of a session that was closed before was answered with
\* 400 while another session is registered
C13_Witness ==
  /\ lastOp = Op("GET", "400")
  /\ DOMAIN transports # {}
  /\ \E t \in Transports : tState[t] = "closed" /\ tSession[t] # NoSession

\* the session ids that were in the registry and were removed from it
ClosedIds ==
  {tSession[t] : t \in Transports} \ ({NoSession} \cup DOMAIN transports)

\* C14 (as claimed): an id that left the registry never is a key of it again,
\* and no request that carried such an id is served by a session: the
\* transport built for it, if any, never gets a session.
C14_ClosedIsTerminal ==
  /\ [][\A s \in ClosedIds : s \notin DOMAIN transports']_vars
  /\ [](\A t \in Transports :
          tRequest[t].sid \in ClosedIds => tSession[t] = NoSession)

\* C15: a POST /mcp with the id of a registered session is handled by the
\* transport stored under that id; no transport is constructed or connected
\* and the registry is unchanged.
C15_KnownSessionReusesTransport ==
  [][\A sid \in SessionIds, init \in BOOLEAN :
       PostExisting(sid, init) =>
         /\ tSession[transports[sid]] = sid
         /\ UNCHANGED <<transports, nTransports, tState, tRequest,
                        awaitingConnect, tSession, closeCount>>
         /\ \A u \in Transports \ {transports[sid]} : inHandle'[u] = inHandle[u]
         /\ ~init => inHandle'[transports[sid]] = inHandle[transports[sid]] + 1]_vars

\* a request of the second session entered its transport while a request of
\* the first session was inside the first session's transport
C15_Witness ==
  /\ lastOp = Op("postExisting", "handled")
  /\ Cardinality(DOMAIN transports) = 2
  /\ \A t \in Transports : inHandle[t] = 1

\* C16: a transport is in the registry only after it reported its session
\* (onsessioninitialized), under the id it reported; a constructed transport
\* that has not (or never) reported one is not in the registry, and an entry
\* is added by no step but onsessioninitialized.
C16_StoredOnlyWhenInitialized ==
  /\ [](\A t \in Transports :
          (awaitingConnect[t] \/ tSession[t] = NoSession) => t \notin Registered)
  /\ [](\A s \in DOMAIN transports : tSession[transports[s]] = s)
  /\ [][\A s \in SessionIds :
          (s \in DOMAIN transports' /\ s \notin DOMAIN transports) =>
             \E t \in Transports :
               /\ onsessioninitialized(t)
               /\ tSession'[t] = s
               /\ transports'[s] = t]_vars

\* the connect of an initialize request was rejected, so that its transport
\* never reports a session, while another transport still awaits its connect
C16_Witness ==
  /\ lastOp = Op("connect", "500")
  /\ \E t, u \in Transports :
       /\ tState[t] = "connected" /\ ~awaitingConnect[t]
       /\ tRequest[t].init /\ tSession[t] = NoSession
       /\ awaitingConnect[u]

\* C17: stop() calls close() once on every transport that is in the registry
\* and on no other, and leaves the registry empty, also when a close throws.
C17_StopClosesAll ==
  [][stop =>
       /\ transports' = <<>>
       /\ \A t \in Transports :
            closeCount'[t] = closeCount[t] + (IF t \in Registered THEN 1 ELSE 0)]_vars

\* stop() ran with two sessions registered and a close that threw
C17_Witness ==
  /\ lastOp = Op("stop", "closeError")
  /\ \A t \in Transports : closeCount[t] = 1 /\ tSession[t] # NoSession
  /\ transports = <<>>

\* C18: initialize requests handled in any interleaving get sessions under
\* pairwise different ids, each id mapping to the transport built for its
\* request; storing one leaves the other entries alone, and closing one
\* (DELETE, closeSession) removes that entry only.
C18_ConcurrentInitializesDistinct ==
  /\ [](\A s \in DOMAIN transports : tSession[transports[s]] = s)
  /\ [](\A t, u \in Transports :
          (t # u /\ tSession[t] # NoSession) => tSession[t] # tSession[u])
  /\ [][\A t \in Transports :
          onsessioninitialized(t) =>
             /\ tSession'[t] \notin DOMAIN transports
             /\ transports' = MapSet(transports, tSession'[t], t)]_vars
  /\ [][\A sid \in DOMAIN transports :
          (handleSessionRequest("DELETE", sid) \/ closeSession(sid, FALSE)) =>
             /\ transports' = MapDelete(transports, sid)
             /\ \A u \in Transports \ {transports[sid]} :
                  tState'[u] = tState[u] /\ closeCount'[u] = closeCount[u]]_vars

\* two initialize requests each got a session; the first session was closed
\* by DELETE and the second is still registered, with its request inside
C18_Witness ==
  /\ lastOp = Op("DELETE", "handled")
  /\ tRequest[1] = Request(NoSession, TRUE) /\ tRequest[2] = Request(NoSession, TRUE)
  /\ tState[1] = "closed" /\ tSession[1] = 1
  /\ DOMAIN transports = {2} /\ transports[2] = 2
  /\ inHandle[2] = 1 /\ inHandle[1] = 0

\* C19 (as claimed): at most one request is inside the handleRequest of a
\* transport at a time.
C19_OneRequestPerTransport ==
  \A t \in Transports : inHandle[t] <= 1

\* C20 (as claimed): the tool callback always returns an envelope and never
\* throws: {success: true, data: r} when the handler resolved with a
\* serialisable r, and {success: false, error: message} with the message of
\* the failure whenever the handler threw or rejected, whatever the value.
C20_EnvelopeAlways ==
  \A tool \in Tools :
    LET o == toolOutcome[tool]
        r == toolResponse[tool]
    IN /\ o.kind # "none" => r.kind = "returned"
       /\ (o.kind = "returns" /\ o.val.type # "circular") =>
             r = Returned([k \in {x \in {"success", "data"} :
                                    x = "data" => o.val.type # "undefined"} |->
                             IF k = "success" THEN Val("boolean", "true")
                             ELSE o.val])
       /\ o.kind = "throws" =>
             /\ r.val.success = Val("boolean", "false")
             /\ o.val.type = "Error" => r.val.error = Val("string", o.val.v)

\* C21: every tool invocation ends with an envelope and never hangs.  An
\* invocation without a bridge, without the transport or before the client is
\* ready returns {success: false, error} at once; an invocation that
\* registered a request returns (timers firing) whether the peer replies,
\* replies with an error, never replies, or the bridge is cleaned up, and its
\* envelope is {success: false, error} with the message of the rejection
\* unless the peer replied with a result.
C21_InvocationTerminates ==
  /\ [][\A tool \in InvokedTools :
          InvokeRejected(tool) =>
            toolResponse'[tool] =
              Returned([success |-> Val("boolean", "false"),
                        error |-> Val("string", InvokeError)])]_vars
  /\ [](\A c \in Calls :
          envelope[c] # NotInvoked =>
            /\ envelope[c].kind = "returned"
            /\ outcome[c] # "response" =>
                 envelope[c].val =
                   [success |-> Val("boolean", "false"),
                    error |-> Val("string", HandlerOutcomeOf(c).val.v)])
  /\ \A c \in Calls : (callerState[c] # "none") ~> (envelope[c] # NotInvoked)

\* two invocations registered requests: the peer never replied to the first,
\* the bridge was cleaned up while the second was pending, and both tool
\* callbacks returned their envelopes
C21_Witness ==
  \E c, d \in Calls :
    /\ outcome[c] = "timeout" /\ outcome[d] = "shutdown"
    /\ envelope[c].kind = "returned" /\ envelope[d].kind = "returned"

\* C22 (as claimed): a malformed 'vue-mcp:response' or 'vue-mcp:error' event
\* (payload missing, null, without requestId, with a requestId that is no
\* string) is dropped: the handler does not throw, settles no call and leaves
\* pendingRequests unchanged.
C22_MalformedDropped ==
  /\ [](lastOp.op \in ReplyEvents => lastOp.res # "threw")
  /\ [][\A e \in ReplyEvents, d \in MalformedData :
          handleInvalidData(e, d) =>
            UNCHANGED <<pendingRequests, timerArmed, settles, cmdState,
                        callerState, outcome, value>>]_vars

\* C23: an error event whose requestId is pending rejects the call registered
\* under that id, and no other, with an Error whose message is the error text
\* of the event, cancels its timer and removes its entry; the call is not
\* resolved.  (An event without error text rejects as well: with 'Unknown
\* client error' in src/plugins/base, with an empty message in
\* packages/plugin.)
C23_ErrorEventRejects ==
  [][\A r \in ReqIds, v \in ErrorTexts :
       (handleClientError(r, v) /\ r \in Pending) =>
         LET c == pendingRequests[r] IN
         /\ reqId[c] = r
         /\ callerState[c] = "pending"
         /\ callerState'[c] = "rejected" /\ cmdState'[c] = "rejected"
         /\ outcome'[c] = "error"
         /\ v # NoText => value'[c] = v
         /\ v = NoText =>
              value'[c] = (IF variant = "base" THEN "Unknown client error" ELSE "")
         /\ ~timerArmed'[c]
         /\ pendingRequests' = MapDelete(pendingRequests, r)
         /\ \A d \in Calls \ {c} :
              /\ callerState'[d] = callerState[d]
              /\ timerArmed'[d] = timerArmed[d]
              /\ value'[d] = value[d]]_vars

\* an error event rejected the second call with its text while the first
\* call was still pending
C23_Witness ==
  /\ lastOp = Op("error", "rejected")
  /\ callerState[1] = "pending" /\ reqId[1] \in Pending
  /\ outcome[2] = "error" /\ value[2] = "v2" /\ ~timerArmed[2]

\* C24 (as claimed): a sendCommand call whose correlation id is already a key
\* of pendingRequests does not register: the entry stored under that id, its
\* call and its timer stay in place, and the new call fails.
C24_NoOverwrite ==
  [][\A m \in Methods, t \in BOOLEAN :
       SendCommand(m, t, FALSE) =>
         /\ \A r \in Pending :
              /\ r \in DOMAIN pendingRequests'
              /\ pendingRequests'[r] = pendingRequests[r]
         /\ reqId'[nCalls + 1] \in Pending => callerState'[nCalls + 1] = "rejected"]_vars

\* C25 (as claimed): the correlation ids one bridge mints are pairwise
\* different over all its sendCommand calls.
C25_IdsDistinct ==
  \A c, d \in Calls :
    (c # d /\ reqId[c] # NoId /\ reqId[d] # NoId) => reqId[c] # reqId[d]

\* C26 (as claimed): clientReady changes from false to true only in the
\* listener of the 'vue-mcp:client-ready' event.
C26_OnlyReadyEvent ==
  [][(~clientReady /\ clientReady') => handleClientReady]_vars

\* C26 (amended): clientReady changes from false to true only in the listener
\* of the 'vue-mcp:client-ready' event or in setClientReady(true), which the
\* plugin calls for a POST /__vue-mcp/client-ready; sendCommand, replies,
\* malformed events, timeouts and cleanup() never make the bridge ready.
C26_OnlyReadySignals ==
  [][(~clientReady /\ clientReady') =>
        (handleClientReady \/ setClientReady(TRUE) \/ handleClientReadyRequest)]_vars

\* the bridge became ready again by the HTTP notification after cleanup()
\* had rejected a pending call
C26_Witness ==
  /\ lastOp = Op("clientReadyRequest", "true")
  /\ clientReady /\ cleaned
  /\ \E c \in Calls : outcome[c] = "shutdown"

\* C27: no pending call is orphaned, however sendCommand and cleanup()
\* interleave.  Every entry of pendingRequests belongs to a pending call whose
\* timer is armed; cleanup() rejects every call registered before it and
\* leaves the map empty; a call registered after cleanup() is settled by a
\* reply, its timeout or a later cleanup(); no id stays in the map for ever.
C27_NoOrphan ==
  /\ [](\A r \in Pending :
          LET c == pendingRequests[r] IN
          reqId[c] = r /\ timerArmed[c] /\ cmdState[c] = "pending")
  /\ [][cleanup =>
          /\ pendingRequests' = <<>>
          /\ \A c \in Calls :
               callerState[c] = "pending" =>
                 (callerState'[c] = "rejected" /\ outcome'[c] = "shutdown")]_vars
  /\ \A c \in Calls :
       (cleaned /\ cmdState[c] = "pending")
          ~> (outcome[c] \in {"response", "error", "timeout", "shutdown"})
  /\ \A r \in ReqIds : (r \in Pending) ~> (r \notin Pending)

\* cleanup() rejected the first call; the bridge became ready again, the
\* second call was registered after cleanup() and was settled by its timeout
C27_Witness ==
  /\ cleaned
  /\ outcome[1] = "shutdown"
  /\ outcome[2] = "timeout" /\ reqId[2] \notin Pending

\* the 'vue-mcp:command' events sent with the requestId of call c
EventsOf(c) == {i \in DOMAIN emitted : emitted[i].requestId = reqId[c]}

\* C28: a sendCommand call that registers a request hands one
\* 'vue-mcp:command' event to ws.send, with type = method and the requestId
\* under which the entry was stored; one event per call went out (none when
\* ws.send threw), and no other operation (timeout, error reply, reply,
\* cleanup) ever sends a command.
C28_OneCommandPerCall ==
  /\ [](\A c \in Calls :
          Cardinality(EventsOf(c)) =
            (IF callerState[c] = "none" \/ outcome[c] = "sendFailed" THEN 0 ELSE 1))
  /\ [][\A m \in Methods :
          SendCommand(m, FALSE, TRUE) =>
            LET c == nCalls + 1 IN
            /\ emitted' = Append(emitted, [type |-> m, requestId |-> reqId'[c]])
            /\ reqId'[c] \in DOMAIN pendingRequests'
            /\ pendingRequests'[reqId'[c]] = c]_vars
  /\ [][emitted' # emitted => \E m \in Methods : SendCommand(m, FALSE, TRUE)]_vars

\* the first call was sent and timed out, the send of the second call failed,
\* and one command has been sent in all
C28_Witness ==
  /\ outcome[1] = "timeout" /\ outcome[2] = "sendFailed"
  /\ Len(emitted) = 1 /\ emitted[1].requestId = reqId[1]

\* C29: a POST /mcp without session id and with a body that is no initialize
\* request is given a newly constructed transport: no registered transport
\* gets the request, no registry entry is removed or replaced, neither when
\* the transport is built nor when it answers, and the new transport never
\* enters the registry.
C29_DirectCallOwnTransport ==
  /\ [][PostDevelopmentMode(NoSession, FALSE) =>
          LET t == nTransports + 1 IN
          /\ nTransports' = t
          /\ tState[t] = "absent" /\ tState'[t] = "connected"
          /\ t \notin Registered
          /\ tRequest'[t] = Request(NoSession, FALSE)
          /\ UNCHANGED <<transports, inHandle, tSession, closeCount>>
          /\ \A u \in Transports \ {t} : tState'[u] = tState[u]]_vars
  /\ [][\A t \in Transports :
          ((HandleNotInitialized(t) \/ ConnectRejected(t))
             /\ tRequest[t] = Request(NoSession, FALSE)) =>
            UNCHANGED <<transports, inHandle, tState, tSession, closeCount>>]_vars
  /\ [](\A t \in Transports :
          (t <= nTransports /\ tRequest[t] = Request(NoSession, FALSE)) =>
            (t \notin Registered /\ tSession[t] = NoSession /\ inHandle[t] = 0))

\* a request without session id and without initialize body was answered by
\* its own transport while a session was registered with a request inside
C29_Witness ==
  /\ lastOp = Op("handleRequest", "notInitialized")
  /\ tRequest[2] = Request(NoSession, FALSE)
  /\ tState[2] = "connected" /\ ~awaitingConnect[2]
  /\ DOMAIN transports = {1} /\ transports[1] = 1 /\ inHandle[1] = 1

\* the sessions that were stored and have not been closed since
LiveSessions ==
  {tSession[t] : t \in {u \in Transports :
                          tSession[u] # NoSession /\ tState[u] # "closed"}}

\* C30: GET /health reports as activeSessions the number of keys of the
\* registry, and GET /debug/sessions lists exactly the keys of the registry,
\* each once, with totalCount the length of the list; the sessions counted
\* and listed are those stored and not closed since, so a session removed by
\* onclose, closeSession or stop() is neither counted nor listed.
C30_InspectorMatchesRegistry ==
  /\ [][GetHealth =>
          /\ health'.activeSessions = Cardinality(DOMAIN transports)
          /\ health'.activeSessions = Cardinality(LiveSessions)]_vars
  /\ [][GetDebugSessions =>
          LET l == debugSessions'.activeSessions IN
          /\ {l[i].sessionId : i \in DOMAIN l} = DOMAIN transports
          /\ \A i, j \in DOMAIN l : i # j => l[i].sessionId # l[j].sessionId
          /\ debugSessions'.totalCount = Len(l)
          /\ {l[i].sessionId : i \in DOMAIN l} = LiveSessions]_vars

\* GET /debug/sessions listed the one session left after another session
\* had been closed by DELETE, and GET /health had counted both before
C30_Witness ==
  /\ lastOp = Op("GET /debug/sessions", "200")
  /\ Len(debugSessions.activeSessions) = 1
  /\ debugSessions.totalCount = 1
  /\ health.activeSessions = 2
  /\ \E t \in Transports : tState[t] = "closed" /\ tSession[t] # NoSession

\* C31: once stop() has run and no request is in flight any more (no
\* transport waits for its connect, none has a request inside), every
\* transport the registry still holds is closed: a session whose handshake
\* completed after stop() is not left registered with an open transport
C31_NoSessionSurvivesStop ==
  (/\ stopped # "no"
   /\ \A t \in Transports : ~awaitingConnect[t] /\ inHandle[t] = 0)
    => \A s \in DOMAIN transports : tState[transports[s]] = "closed"

\* C32: a request suspended inside the transport of session a blocks no
\* other session: while it is inside and the server listens, a POST for any
\* other registered session b can be routed into b's transport (as long as
\* the bound on requests inside one transport allows another), a request
\* inside b's transport can complete, an initialize request can be accepted
\* (as long as a transport is left to build), and an initialize request in
\* flight can complete its handshake
C32_SessionsIndependent ==
  \A a \in DOMAIN transports :
    (httpServer = "listening" /\ inHandle[transports[a]] > 0) =>
      /\ \A b \in DOMAIN transports \ {a} :
           /\ inHandle[transports[b]] < MaxInHandle
                => ENABLED PostExisting(b, FALSE)
           /\ inHandle[transports[b]] > 0
                => ENABLED HandleRequestDone(transports[b])
      /\ nTransports < MaxTransports => ENABLED PostInitialize
      /\ \A t \in Transports :
           (awaitingConnect[t] /\ tRequest[t].init)
             => ENABLED onsessioninitialized(t)

\* a request is inside the transport of session 1 while a request of session
\* 2, routed after it, has been handled to the end
C32_Witness ==
  /\ DOMAIN transports = {1, 2}
  /\ httpServer = "listening"
  /\ inHandle[transports[1]] = MaxInHandle
  /\ inHandle[transports[2]] = 0
  /\ lastOp = Op("handleRequest", "done")

\* C33: an exception raised while a request is routed or handled (connect
\* rejects, handleRequest throws) is caught by the route handler: the request
\* is answered 500 when no response header was sent yet and gets no second
\* answer otherwise, the exception never escapes the handler, and the
\* registry is left as it was, so every entry of another session still maps
\* to its transport
C33_ExceptionsCaught ==
  [][\A t \in Transports :
       /\ ConnectRejected(t) =>
            /\ lastOp'.res = "500"
            /\ \A k \in DOMAIN transports :
                 k \in DOMAIN transports' /\ transports'[k] = transports[k]
       /\ \A h \in BOOLEAN : HandleRequestThrows(t, h) =>
            /\ lastOp'.res = (IF h THEN "none" ELSE "500")
            /\ \A k \in DOMAIN transports \ {tSession[t]} :
                 k \in DOMAIN transports' /\ transports'[k] = transports[k]
            /\ tState' = tState]_vars

\* handleRequest threw inside the transport of session 2 before any header
\* was sent and the request was answered 500, while session 1 is registered
\* with a request inside its transport
C33_Witness ==
  /\ lastOp = Op("handleRequest", "500")
  /\ DOMAIN transports = {1, 2}
  /\ inHandle[transports[1]] > 0
  /\ inHandle[transports[2]] = 0
  /\ tState[transports[1]] = "connected"

\* C34: registry consistency: in every reachable state every key k of the
\* registry maps to a transport whose sessionId is k, and no transport is
\* stored under two different keys
C34_RegistryConsistent ==
  /\ \A k \in DOMAIN transports :
       /\ transports[k] \in Transports
       /\ tSession[transports[k]] = k
  /\ \A j, k \in DOMAIN transports : transports[j] = transports[k] => j = k

\* two sessions are registered, the second one opened by an initialize
\* request that presented the id of a session the registry does not hold
C34_Witness ==
  /\ Cardinality(DOMAIN transports) = 2
  /\ \E k \in DOMAIN transports :
       /\ tRequest[transports[k]].sid \notin {NoSession, k}
       /\ tRequest[transports[k]].init

\* C35: closing one session leaves all others untouched: a closeSession(id)
\* call, and a DELETE /mcp that makes the transport of session id close
\* itself and run its onclose callback, add no entry to the registry and
\* remove at most the entry of id; every other entry maps to the same
\* transport before and after, and that transport is in the same state and
\* has not been closed by the step
C35_CloseLeavesOthers ==
  [][\A sid \in SessionIds \cup {NoSession} :
       ((\E thr \in BOOLEAN : closeSession(sid, thr))
          \/ handleSessionRequest("DELETE", sid)) =>
         /\ DOMAIN transports' \subseteq DOMAIN transports
         /\ \A k \in DOMAIN transports \ {sid} :
              /\ k \in DOMAIN transports'
              /\ transports'[k] = transports[k]
              /\ tState'[transports[k]] = tState[transports[k]]
              /\ closeCount'[transports[k]] = closeCount[transports[k]]]_vars

\* closeSession closed one of two registered sessions: the other one is still
\* registered with its transport connected
C35_Witness ==
  /\ lastOp = Op("closeSession", "true")
  /\ Cardinality(DOMAIN transports) = 1
  /\ \A k \in DOMAIN transports : tState[transports[k]] = "connected"
  /\ \E t \in Transports : tState[t] = "closed" /\ tSession[t] # NoSession

\* C36: closeSession(id) returns true exactly when id is a key of the
\* registry and close() of its transport does not throw, and id is then no
\* key any more; it returns false and leaves the registry as it was when id
\* is no key or when close() throws; a call for an id whose transport is
\* closed already (the second of two calls for the same id) returns false
\* and calls close() on no transport, so that transport was closed once
C36_CloseSessionResult ==
  [][\A sid \in SessionIds \cup {NoSession}, thr \in BOOLEAN :
       closeSession(sid, thr) =>
         /\ lastOp'.res \in {"true", "false"}
         /\ lastOp'.res = "true" <=> (sid \in DOMAIN transports /\ ~thr)
         /\ lastOp'.res = "true" =>
              /\ sid \notin DOMAIN transports'
              /\ tState'[transports[sid]] = "closed"
              /\ closeCount'[transports[sid]] = closeCount[transports[sid]] + 1
         /\ lastOp'.res = "false" => transports' = transports
         /\ (\E t \in Transports : tSession[t] = sid /\ tState[t] = "closed") =>
              /\ lastOp'.res = "false"
              /\ closeCount' = closeCount]_vars

\* the only session there is was closed by closeSession, and a later
\* closeSession returned false: the transport was closed once
C36_Witness ==
  /\ lastOp = Op("closeSession", "false")
  /\ nTransports = 1
  /\ tSession[1] = 1
  /\ tState[1] = "closed"
  /\ closeCount[1] = 1
  /\ inspectorProcess
  /\ httpServer = "listening"

\* C37: setClientReady(v) sets the ready flag to v and changes nothing else
\* of the bridge: no entry leaves pendingRequests, no timer is cancelled, no
\* call is settled; called with the value the flag has already it changes
\* nothing at all; and a call that is pending while the flag is false is
\* still settled later, by its reply or its timeout
C37_ReadyFlagOnly ==
  /\ [][\A b \in BOOLEAN : setClientReady(b) =>
          /\ clientReady' = b
          /\ UNCHANGED <<pendingRequests, timerArmed, raceArmed, settles,
                         cmdState, callerState, outcome, value, emitted,
                         messageId, minted, cleaned>>
          /\ clientReady = b => UNCHANGED bridgeVars]_vars
  /\ \A c \in Calls :
       (cmdState[c] = "pending" /\ ~clientReady) ~> (callerState[c] \in Settled)

\* the flag was set to false by setClientReady while a call was pending, and
\* the reply of that call then resolved it
C37_Witness ==
  /\ ~clientReady
  /\ ~cleaned
  /\ lastOp = Op("response", "resolved")
  /\ \E c \in Calls : outcome[c] = "response" /\ callerState[c] = "resolved"

\* C38: the runtime layer sends nothing on a local failure.  Without a
\* bridge every operation throws and calls no bridge method.  With a bridge,
\* getComponentState, updateComponentState and highlightComponent call the
\* bridge only if the selector is an object with a name, an id or a
\* domSelector (one that is not empty), and updateComponentState only if in
\* addition patch.path is an array that is not empty and whose elements are
\* all strings; an operation that calls the bridge calls the method of its
\* own name and throws nothing locally.
C38_NothingSentOnLocalFailure ==
  [][\A op \in LayerOps, selector \in Selectors, patch \in Patches :
       LayerCall(op, selector, patch) =>
         /\ ~layerBridge =>
              /\ layerCall'.bridge = "none"
              /\ layerCall'.error # ""
         /\ layerCall'.bridge # "none" =>
              /\ layerBridge
              /\ layerCall'.bridge = op
              /\ layerCall'.error = ""
              /\ op \in SelectorOps =>
                   /\ selector.type \in {"object", "array"}
                   /\ \E f \in {selector.name, selector.id, selector.domSelector} :
                        f.type = "string" /\ f.v # ""
              /\ op = "updateComponentState" =>
                   /\ patch.path.type = "array"
                   /\ Len(patch.path.elems) > 0
                   /\ \A i \in 1..Len(patch.path.elems) :
                        patch.path.elems[i] = "string"
         /\ layerCall'.bridge = "none" <=> layerCall'.error # ""]_vars

\* updateComponentState reached the bridge with a selector that has only a
\* domSelector and a path of two strings
C38_Witness ==
  /\ layerCall.op = "updateComponentState"
  /\ layerCall.bridge = "updateComponentState"
  /\ Falsy(layerCall.selector.name) /\ Falsy(layerCall.selector.id)
  /\ Len(layerCall.patch.path.elems) = 2
  /\ layerBridge

\* C39 (as claimed): isRunning() changes only when a start() or a stop()
\* succeeds, to true and to false; start() on a running server and stop() on
\* one that is not running change nothing; after a start() that failed
\* isRunning() is false, and after a stop() that failed it is true
C39_Lifecycle ==
  [][/\ (serverStart /\ isRunning) => UNCHANGED <<bridgeVars, httpVars, serverVars>>
     /\ (serverStop /\ ~isRunning) => UNCHANGED <<bridgeVars, httpVars, serverVars>>
     /\ \A i \in BOOLEAN : serverStartDone(TRUE, i) => isRunning'
     /\ serverStopDone(TRUE) => ~isRunning'
     /\ isRunning' # isRunning =>
          \/ \E i \in BOOLEAN : serverStartDone(TRUE, i)
          \/ serverStopDone(TRUE)
     /\ serverStartDone(FALSE, FALSE) => ~isRunning'
     /\ serverStopDone(FALSE) => isRunning']_vars

\* C40 (as claimed): the configuration manager always holds a valid
\* configuration: after construction and after every update() and merge(),
\* also one that threw ConfigValidationError, the configuration getConfig()
\* returns passes validateConfig
C40_AlwaysValid == validateConfig(getConfig) = "ok"

====
